---- MODULE Spec2Model ----
(***************************************************************************)
(* A model of the block-structured sequences of dsa-exercise-cpp:          *)
(*   - BlockyLinkedList (include/dsa/blocky_linked_list.hpp), a doubly     *)
(*     linked list of fixed-capacity CircularBuffer blocks;                *)
(*   - RootishArray (include/dsa/rootish_array.hpp), an ArrayList of       *)
(*     ArrayList blocks of capacity 1, 2, 3, ...                           *)
(* Every public operation is one action; the operators below follow the    *)
(* member functions statement by statement.  A thrown exception is the     *)
(* field err of the threaded state: once it is set, the remaining          *)
(* statements of the call are skipped and the state is left as it was at   *)
(* the throw.                                                              *)
(***************************************************************************)
EXTENDS Integers, Sequences, FiniteSets, TLC

\* ------------------------------------------------------------- bounds
\* largest number of elements a BlockyLinkedList is grown to
MaxSize == 14
\* at most this many elements of value 1 are in a list at a time
MaxMarked == 1
\* a RootishArray is given no further element once size() reports this many
RAMaxSize == 6
\* the largest position given to RootishArray::elementIndex on its own
MaxPos == 120
\* the largest capacity a CircularBuffer is constructed with
MaxCap == 3
\* the number of values pushed into a CircularBuffer
MaxPushes == 6
\* the largest capacity asked of CircularBuffer::resize
MaxResize == 4
\* the number of values pushed into a CircularBuffer that is also
\* resized, linearized, cleared, copied and moved
MaxAllPushes == 3
\* a DoublyLinkedList is given no further element once size() reports
\* this many
MaxNodes == 5

\* ---------------------------------------------------------- constants
\* BlockyLinkedList::m_blockSize (= s_minimumBlockSize)
m_blockSize == 3
\* nullptr
NULL == 0
\* a pointer to a node that has been freed
DANGLING == 0 - 1
\* the values of the elements
Values == {0, 1}
\* CircularBuffer::npos
npos == 0 - 1
\* what raw memory, or an object whose lifetime has ended, may read as
GARBAGE == 0 - 2
\* the value of a moved-from element
MOVED == 0 - 3

VARIABLES
    bll,        \* the BlockyLinkedList, as left by the last call made on it
    call,       \* the last call: its kind, whether its position was in range,
                \* and what a plain list returns for it
    ref,        \* a plain list given the same calls
    ra,         \* the RootishArray, as left by the last call made on it
    racall,     \* the last call made on the RootishArray
    raref,      \* a plain list given the same calls as the RootishArray
    rastored,   \* calls of insert that returned minus calls of remove that
                \* returned
    ei,         \* the last call of RootishArray::elementIndex made on its own
    cb,         \* the CircularBuffer, as left by the last call made on it
    cbcall,     \* the last call made on the CircularBuffer, and what has
                \* been pushed and popped since the buffer was last empty
    other,      \* the CircularBuffer that the last call constructed from
                \* the first one, if it was a copy or a move construction
    dll,        \* the DoublyLinkedList, as left by the last call made on it
    dllcall     \* the last call made on the DoublyLinkedList

bllVars == <<bll, call, ref>>
raVars == <<ra, racall, raref, rastored>>
eiVars == <<ei>>
cbVars == <<cb, cbcall, other>>
dllVars == <<dll, dllcall>>
vars == <<bll, call, ref, ra, racall, raref, rastored, ei, cb, cbcall, other, dll, dllcall>>
\* what the calls made on one object leave alone
notBLL == <<raVars, eiVars, cbVars, dllVars>>
notRA == <<bllVars, eiVars, cbVars, dllVars>>
notEI == <<bllVars, raVars, cbVars, dllVars>>
notCB == <<bllVars, raVars, eiVars, dllVars>>
notDLL == <<bllVars, raVars, eiVars, cbVars>>

\* ---------------------------------------------------------------------
\* plain sequences (the reference list, and what a block holds)
\* ---------------------------------------------------------------------
SeqInsert(s, pos, v) ==
    SubSeq(s, 1, pos) \o <<v>> \o SubSeq(s, pos + 1, Len(s))

SeqRemove(s, pos) ==
    SubSeq(s, 1, pos) \o SubSeq(s, pos + 2, Len(s))

CountMarked(s) == Cardinality({i \in 1..Len(s) : s[i] = 1})

\* ---------------------------------------------------------------------
\* CircularBuffer<T> as a block of a BlockyLinkedList node: fixed capacity
\* m_blockSize + 1, ThrowOnFull.  A block is represented by its logical
\* contents at(0), ..., at(size() - 1).
\* ---------------------------------------------------------------------
BlockCapacity == m_blockSize + 1

BlockSize(blk) == Len(blk)

\* push_back: throws std::out_of_range when full (m_tail == npos)
BlockPushBack(blk, v) ==
    IF Len(blk) = BlockCapacity
    THEN [err |-> "out_of_range", blk |-> blk]
    ELSE [err |-> "none", blk |-> Append(blk, v)]

\* push_front: throws std::out_of_range when full
BlockPushFront(blk, v) ==
    IF Len(blk) = BlockCapacity
    THEN [err |-> "out_of_range", blk |-> blk]
    ELSE [err |-> "none", blk |-> <<v>> \o blk]

\* pop_front: throws std::out_of_range when empty
BlockPopFront(blk) ==
    IF Len(blk) = 0
    THEN [err |-> "out_of_range", blk |-> blk, val |-> <<>>]
    ELSE [err |-> "none", blk |-> Tail(blk), val |-> <<Head(blk)>>]

\* pop_back: throws std::out_of_range when empty
BlockPopBack(blk) ==
    IF Len(blk) = 0
    THEN [err |-> "out_of_range", blk |-> blk, val |-> <<>>]
    ELSE [err |-> "none", blk |-> SubSeq(blk, 1, Len(blk) - 1),
          val |-> <<blk[Len(blk)]>>]

\* insert(pos, v): pos in [0, size], else out of range; a full block throws
BlockInsert(blk, pos, v) ==
    IF pos > Len(blk) \/ Len(blk) = BlockCapacity
    THEN [err |-> "out_of_range", blk |-> blk]
    ELSE [err |-> "none", blk |-> SeqInsert(blk, pos, v)]

\* remove(pos): pos in [0, size), else out of range
BlockRemove(blk, pos) ==
    IF pos >= Len(blk)
    THEN [err |-> "out_of_range", blk |-> blk, val |-> <<>>]
    ELSE [err |-> "none", blk |-> SeqRemove(blk, pos), val |-> <<blk[pos + 1]>>]

\* ---------------------------------------------------------------------
\* BlockyLinkedList: the list is threaded through the member functions as
\* L = [nodes, m_head, m_tail, m_size, err, path, ret]: the heap of nodes
\* (address -> [m_next, m_prev, m_block]) and the members of the list, and
\* of the call in progress the exception thrown (err), the rebalancing it
\* made (path: "Spread", "Gather", or "none" for neither) and the value it
\* returns (ret: <<v>>, or <<>> for none)
\* ---------------------------------------------------------------------
Ok(L) == L.err = "none"

Fail(L, e) == [L EXCEPT !.err = e]

\* std::make_unique<Node>(m_blockSize + 1): a fresh address
NewNode(L) ==
    CHOOSE n \in 1..(Cardinality(DOMAIN L.nodes) + 1) : n \notin DOMAIN L.nodes

\* the heap with node n freed
Free(nds, n) == [x \in (DOMAIN nds) \ {n} |-> nds[x]]

\* the heap with node n allocated
Alloc(nds, n, rec) == [x \in (DOMAIN nds) \cup {n} |-> IF x = n THEN rec ELSE nds[x]]

\* a pointer that can be dereferenced
Live(L, p) == p \in DOMAIN L.nodes

insertNodeAfter(L, node) ==
    LET prev == node
        next == L.nodes[prev].m_next
        newNode == NewNode(L)
        n1 == Alloc(L.nodes, newNode,
                    [m_next |-> next, m_prev |-> prev, m_block |-> <<>>])
        n2 == IF next # NULL THEN [n1 EXCEPT ![next].m_prev = newNode] ELSE n1
        n3 == [n2 EXCEPT ![prev].m_next = newNode]
    IN  [L  |-> [L EXCEPT !.nodes = n3,
                          !.m_tail = IF node = L.m_tail THEN n3[node].m_next ELSE L.m_tail],
         node |-> newNode]

\* insertNodeBefore, leaving next->m_prev as it was
insertNodeBeforeNoBackLink(L, node) ==
    LET prev == L.nodes[node].m_prev
        isHead == node = L.m_head
    IN  IF ~isHead /\ ~Live(L, prev)
        THEN [L |-> Fail(L, "null"), node |-> NULL]
        ELSE
        LET next == IF isHead THEN L.m_head ELSE L.nodes[prev].m_next
            head1 == IF isHead THEN NULL ELSE L.m_head
            newNode == NewNode(L)
            n0 == IF isHead THEN L.nodes ELSE [L.nodes EXCEPT ![prev].m_next = NULL]
            n2 == Alloc(n0, newNode,
                        [m_next |-> next, m_prev |-> prev, m_block |-> <<>>])
        IN  IF node = head1
            THEN [L |-> [L EXCEPT !.nodes = n2, !.m_head = newNode], node |-> newNode]
            ELSE IF prev = NULL
            THEN [L |-> Fail([L EXCEPT !.nodes = n2, !.m_head = head1], "null"),
                  node |-> NULL]
            ELSE [L |-> [L EXCEPT !.nodes = [n2 EXCEPT ![prev].m_next = newNode],
                                  !.m_head = head1],
                  node |-> newNode]

insertNodeBefore(L, node) ==
    LET prev == L.nodes[node].m_prev
        isHead == node = L.m_head
    IN  IF ~isHead /\ ~Live(L, prev)
        THEN [L |-> Fail(L, "null"), node |-> NULL]
        ELSE
        LET \* std::move(...) leaves the unique_ptr moved from null
            next == IF isHead THEN L.m_head ELSE L.nodes[prev].m_next
            head1 == IF isHead THEN NULL ELSE L.m_head
            newNode == NewNode(L)
            n0 == IF isHead THEN L.nodes ELSE [L.nodes EXCEPT ![prev].m_next = NULL]
            n1 == Alloc(n0, newNode,
                        [m_next |-> next, m_prev |-> prev, m_block |-> <<>>])
            n2 == IF next # NULL THEN [n1 EXCEPT ![next].m_prev = newNode] ELSE n1
        IN  IF node = head1
            THEN [L |-> [L EXCEPT !.nodes = n2, !.m_head = newNode], node |-> newNode]
            ELSE IF prev = NULL
            THEN [L |-> Fail([L EXCEPT !.nodes = n2, !.m_head = head1], "null"),
                  node |-> NULL]
            ELSE [L |-> [L EXCEPT !.nodes = [n2 EXCEPT ![prev].m_next = newNode],
                                  !.m_head = head1],
                  node |-> newNode]

removeNode(L, node) ==
    IF node = L.m_head
    THEN LET next == L.nodes[node].m_next
             n1 == Free(L.nodes, node)
             n2 == IF next # NULL THEN [n1 EXCEPT ![next].m_prev = NULL] ELSE n1
         IN  [L EXCEPT !.nodes = n2, !.m_head = next]
    ELSE LET prev == L.nodes[node].m_prev
             tail1 == IF node = L.m_tail THEN prev ELSE L.m_tail
             next == L.nodes[node].m_next
             n1 == IF next # NULL THEN [L.nodes EXCEPT ![next].m_prev = prev]
                                  ELSE L.nodes
         IN  IF ~Live(L, prev)
             THEN Fail([L EXCEPT !.nodes = n1, !.m_tail = tail1], "null")
             ELSE \* prev.m_next = std::move(next) frees the node it held
                  [L EXCEPT !.nodes = Free([n1 EXCEPT ![prev].m_next = next],
                                           L.nodes[prev].m_next),
                            !.m_tail = tail1]

initHead(L) ==
    LET n == NewNode(L)
    IN  [L |-> [L EXCEPT !.nodes = Alloc(L.nodes, n,
                              [m_next |-> NULL, m_prev |-> NULL, m_block |-> <<>>]),
                         !.m_head = n, !.m_tail = n],
         node |-> n]

\* PullFromPrev, pushing at the wrong end
PullFromPrevAtBack(L, current) ==
    LET prev == L.nodes[current].m_prev
    IN  IF ~Live(L, prev) THEN Fail(L, "null")
        ELSE
        LET pop == BlockPopBack(L.nodes[prev].m_block)
        IN  IF pop.err # "none" THEN Fail(L, pop.err)
            ELSE
            LET n1 == [L.nodes EXCEPT ![prev].m_block = pop.blk]
                push == BlockPushBack(n1[current].m_block, pop.val[1])
            IN  IF push.err # "none"
                THEN Fail([L EXCEPT !.nodes = n1], push.err)
                ELSE [L EXCEPT !.nodes = [n1 EXCEPT ![current].m_block = push.blk]]

\* current->m_block.push_front(std::move(prev->m_block.pop_back()))
PullFromPrev(L, current) ==
    LET prev == L.nodes[current].m_prev
    IN  IF ~Live(L, prev) THEN Fail(L, "null")
        ELSE
        LET pop == BlockPopBack(L.nodes[prev].m_block)
        IN  IF pop.err # "none" THEN Fail(L, pop.err)
            ELSE
            LET n1 == [L.nodes EXCEPT ![prev].m_block = pop.blk]
                push == BlockPushFront(n1[current].m_block, pop.val[1])
            IN  IF push.err # "none"
                THEN Fail([L EXCEPT !.nodes = n1], push.err)
                ELSE [L EXCEPT !.nodes = [n1 EXCEPT ![current].m_block = push.blk]]

\* PullFromNext, pushing at the wrong end
PullFromNextAtFront(L, current) ==
    LET next == L.nodes[current].m_next
    IN  IF ~Live(L, next) THEN Fail(L, "null")
        ELSE
        LET pop == BlockPopFront(L.nodes[next].m_block)
        IN  IF pop.err # "none" THEN Fail(L, pop.err)
            ELSE
            LET n1 == [L.nodes EXCEPT ![next].m_block = pop.blk]
                push == BlockPushFront(n1[current].m_block, pop.val[1])
            IN  IF push.err # "none"
                THEN Fail([L EXCEPT !.nodes = n1], push.err)
                ELSE [L EXCEPT !.nodes = [n1 EXCEPT ![current].m_block = push.blk]]

\* current->m_block.push_back(std::move(next->m_block.pop_front()))
PullFromNext(L, current) ==
    LET next == L.nodes[current].m_next
    IN  IF ~Live(L, next) THEN Fail(L, "null")
        ELSE
        LET pop == BlockPopFront(L.nodes[next].m_block)
        IN  IF pop.err # "none" THEN Fail(L, pop.err)
            ELSE
            LET n1 == [L.nodes EXCEPT ![next].m_block = pop.blk]
                push == BlockPushBack(n1[current].m_block, pop.val[1])
            IN  IF push.err # "none"
                THEN Fail([L EXCEPT !.nodes = n1], push.err)
                ELSE [L EXCEPT !.nodes = [n1 EXCEPT ![current].m_block = push.blk]]

\* locate, walking from the head: while (pos >= currentSize) ...
RECURSIVE locateFromHead(_, _, _)
locateFromHead(L, current, pos) ==
    IF ~Live(L, current) THEN [err |-> "null", node |-> NULL, offset |-> 0]
    ELSE IF pos >= BlockSize(L.nodes[current].m_block)
    THEN locateFromHead(L, L.nodes[current].m_next,
                        pos - BlockSize(L.nodes[current].m_block))
    ELSE IF pos >= m_blockSize + 1
    THEN [err |-> "sigtrap", node |-> current, offset |-> pos]
    ELSE [err |-> "none", node |-> current, offset |-> pos]

\* locate, walking from the tail: while (pos < idx) ...
RECURSIVE locateFromTail(_, _, _, _)
locateFromTail(L, current, idx, pos) ==
    IF pos < idx \/ idx < 0
    THEN LET prev == L.nodes[current].m_prev
         IN  IF ~Live(L, prev) THEN [err |-> "null", node |-> NULL, offset |-> 0]
             ELSE locateFromTail(L, prev,
                                 idx - BlockSize(L.nodes[prev].m_block), pos)
    ELSE IF pos - idx >= m_blockSize + 1
    THEN [err |-> "sigtrap", node |-> current, offset |-> pos - idx]
    ELSE [err |-> "none", node |-> current, offset |-> pos - idx]

\* locate, rejecting only pos > m_size
locateOffByOne(L, pos) ==
    IF pos < 0 \/ pos > L.m_size
    THEN [err |-> "out_of_range", node |-> NULL, offset |-> 0]
    ELSE IF pos <= L.m_size \div 2
    THEN locateFromHead(L, L.m_head, pos)
    ELSE IF ~Live(L, L.m_tail) THEN [err |-> "null", node |-> NULL, offset |-> 0]
    ELSE locateFromTail(L, L.m_tail,
                        L.m_size - BlockSize(L.nodes[L.m_tail].m_block), pos)

\* pos is a std::size_t: a negative pos stands for the wrapped value
locate(L, pos) ==
    IF pos < 0 \/ pos >= L.m_size
    THEN [err |-> "out_of_range", node |-> NULL, offset |-> 0]
    ELSE IF pos <= L.m_size \div 2
    THEN locateFromHead(L, L.m_head, pos)
    ELSE IF ~Live(L, L.m_tail) THEN [err |-> "null", node |-> NULL, offset |-> 0]
    ELSE locateFromTail(L, L.m_tail, L.m_size - BlockSize(L.nodes[L.m_tail].m_block), pos)

\* the walk of determineInsertScenario / determineRemoveScenario
RECURSIVE scenarioWalk(_, _, _, _)
scenarioWalk(L, current, steps, sz) ==
    IF steps < m_blockSize /\ current # NULL
       /\ BlockSize(L.nodes[current].m_block) = sz
    THEN scenarioWalk(L, L.nodes[current].m_next, steps + 1, sz)
    ELSE [current |-> current, steps |-> steps]

determineInsertScenario(L, node) ==
    LET w == scenarioWalk(L, node, 0, m_blockSize + 1)
    IN  IF w.current = NULL
        THEN LET r == insertNodeAfter(L, L.m_tail)
             IN  [L |-> r.L, node |-> r.L.m_tail, scenario |-> "EndOfList"]
        ELSE IF w.steps = m_blockSize
        THEN [L |-> L, node |-> w.current, scenario |-> "Spread"]
        ELSE [L |-> L, node |-> w.current, scenario |-> "Shift"]

determineRemoveScenario(L, node) ==
    LET w == scenarioWalk(L, node, 0, m_blockSize - 1)
    IN  IF w.current = NULL
        THEN [node |-> L.m_tail, scenario |-> "EndOfList"]
        ELSE IF w.steps = m_blockSize
        THEN [node |-> w.current, scenario |-> "Gather"]
        ELSE [node |-> w.current, scenario |-> "Shift"]

\* for (i < n) node = node->m_next.get()
RECURSIVE stepsForward(_, _, _)
stepsForward(L, node, n) ==
    IF n = 0 THEN node
    ELSE IF ~Live(L, node) THEN DANGLING
    ELSE stepsForward(L, L.nodes[node].m_next, n - 1)

\* spreadFill, stopping one element short
RECURSIVE spreadFillShort(_, _)
spreadFillShort(L, current) ==
    IF ~Ok(L) THEN L
    ELSE IF BlockSize(L.nodes[current].m_block) < m_blockSize - 1
    THEN spreadFillShort(PullFromPrev(L, current), current)
    ELSE L

\* while (current->m_block.size() < m_blockSize) pull from prev
RECURSIVE spreadFill(_, _)
spreadFill(L, current) ==
    IF ~Ok(L) THEN L
    ELSE IF BlockSize(L.nodes[current].m_block) < m_blockSize
    THEN spreadFill(PullFromPrev(L, current), current)
    ELSE L

\* for (current = &newNode; current != &from; current = current->m_prev)
RECURSIVE spreadLoop(_, _, _)
spreadLoop(L, current, from) ==
    IF ~Ok(L) \/ current = from THEN L
    ELSE IF ~Live(L, current) THEN Fail(L, "null")
    ELSE LET L1 == spreadFill(L, current)
         IN  spreadLoop(L1, L1.nodes[current].m_prev, from)

spread(L, from, until) ==
    LET node == stepsForward(L, from, m_blockSize)
    IN  IF node = DANGLING THEN Fail(L, "null")
        ELSE IF node # until THEN Fail(L, "assert")
        ELSE LET r == insertNodeBefore(L, until)
             IN  spreadLoop(r.L, r.node, from)

\* gatherFill, stopping one element short
RECURSIVE gatherFillShort(_, _)
gatherFillShort(L, current) ==
    IF ~Ok(L) THEN L
    ELSE IF BlockSize(L.nodes[current].m_block) < m_blockSize - 1
    THEN gatherFillShort(PullFromNext(L, current), current)
    ELSE L

\* while (current->m_block.size() < m_blockSize) pull from next
RECURSIVE gatherFill(_, _)
gatherFill(L, current) ==
    IF ~Ok(L) THEN L
    ELSE IF BlockSize(L.nodes[current].m_block) < m_blockSize
    THEN gatherFill(PullFromNext(L, current), current)
    ELSE L

\* for (i = 0; i < m_blockSize - 1; ++i) { fill; current = current->m_next }
RECURSIVE gatherLoop(_, _, _)
gatherLoop(L, current, i) ==
    IF ~Ok(L) THEN [L |-> L, node |-> current]
    ELSE IF i >= m_blockSize - 1 THEN [L |-> L, node |-> current]
    ELSE IF ~Live(L, current) THEN [L |-> Fail(L, "null"), node |-> current]
    ELSE LET L1 == gatherFill(L, current)
         IN  gatherLoop(L1, L1.nodes[current].m_next, i + 1)

\* gather, leaving the drained node in the chain
gatherNoUnlink(L, node) ==
    LET g == gatherLoop(L, node, 0)
    IN  IF ~Ok(g.L) THEN g.L
        ELSE IF ~Live(g.L, g.node) THEN Fail(g.L, "null")
        ELSE g.L

gather(L, node) ==
    LET g == gatherLoop(L, node, 0)
    IN  IF ~Ok(g.L) THEN g.L
        ELSE IF ~Live(g.L, g.node) THEN Fail(g.L, "null")
        ELSE removeNode(g.L, g.node)

\* push_back, a new tail node not counted in m_size
push_backUncounted(L, element) ==
    IF L.m_head = NULL
    THEN LET h == initHead(L)
             L1 == [h.L EXCEPT !.m_size = @ + 1]
             p == BlockPushBack(L1.nodes[h.node].m_block, element)
         IN  IF p.err # "none" THEN Fail(L1, p.err)
             ELSE [L1 EXCEPT !.nodes[h.node].m_block = p.blk]
    ELSE IF ~Live(L, L.m_tail) THEN Fail(L, "null")
    ELSE IF BlockSize(L.nodes[L.m_tail].m_block) = m_blockSize + 1
    THEN LET t == insertNodeAfter(L, L.m_tail)
             p == BlockPushBack(t.L.nodes[t.node].m_block, element)
         IN  IF p.err # "none" THEN Fail(t.L, p.err)
             ELSE [t.L EXCEPT !.nodes[t.node].m_block = p.blk]
    ELSE LET L1 == [L EXCEPT !.m_size = @ + 1]
             p == BlockPushBack(L1.nodes[L1.m_tail].m_block, element)
         IN  IF p.err # "none" THEN Fail(L1, p.err)
             ELSE [L1 EXCEPT !.nodes[L1.m_tail].m_block = p.blk]

push_back(L, element) ==
    IF L.m_head = NULL
    THEN LET h == initHead(L)
             L1 == [h.L EXCEPT !.m_size = @ + 1]
             p == BlockPushBack(L1.nodes[h.node].m_block, element)
         IN  IF p.err # "none" THEN Fail(L1, p.err)
             ELSE [L1 EXCEPT !.nodes[h.node].m_block = p.blk]
    ELSE IF ~Live(L, L.m_tail) THEN Fail(L, "null")
    ELSE IF BlockSize(L.nodes[L.m_tail].m_block) = m_blockSize + 1
    THEN LET t == insertNodeAfter(L, L.m_tail)
             L1 == [t.L EXCEPT !.m_size = @ + 1]
             p == BlockPushBack(L1.nodes[t.node].m_block, element)
         IN  IF p.err # "none" THEN Fail(L1, p.err)
             ELSE [L1 EXCEPT !.nodes[t.node].m_block = p.blk]
    ELSE LET L1 == [L EXCEPT !.m_size = @ + 1]
             p == BlockPushBack(L1.nodes[L1.m_tail].m_block, element)
         IN  IF p.err # "none" THEN Fail(L1, p.err)
             ELSE [L1 EXCEPT !.nodes[L1.m_tail].m_block = p.blk]

\* for (current = &rnode; current != &node; current = current->m_prev)
RECURSIVE insertShift(_, _, _)
insertShift(L, current, node) ==
    IF ~Ok(L) \/ current = node THEN L
    ELSE IF ~Live(L, current) THEN Fail(L, "null")
    ELSE LET L1 == PullFromPrev(L, current)
         IN  insertShift(L1, L1.nodes[current].m_prev, node)

insert(L, pos, element) ==
    IF pos = L.m_size \/ (L.m_size = 0 /\ pos = 0)
    THEN push_back(L, element)
    ELSE
    LET loc == locate(L, pos)
    IN  IF loc.err # "none" THEN Fail(L, loc.err)
        ELSE
        LET d == determineInsertScenario(L, loc.node)
            L1 == IF d.scenario = "Spread"
                  THEN spread(d.L, loc.node, d.node)
                  ELSE insertShift(d.L, d.node, loc.node)
        IN  IF ~Ok(L1) THEN L1
            ELSE
            LET L2 == [L1 EXCEPT !.m_size = @ + 1,
                                  !.path = IF d.scenario = "Spread"
                                           THEN "Spread" ELSE "none"]
                ins == BlockInsert(L2.nodes[loc.node].m_block, loc.offset, element)
            IN  IF ins.err # "none" THEN Fail(L2, ins.err)
                ELSE [L2 EXCEPT !.nodes[loc.node].m_block = ins.blk]

\* removeShift, refilling a node only below m_blockSize - 2
RECURSIVE removeShiftLate(_, _)
removeShiftLate(L, current) ==
    IF ~Ok(L) THEN [L |-> L, node |-> current]
    ELSE IF BlockSize(L.nodes[current].m_block) < m_blockSize - 2
            /\ L.nodes[current].m_next # NULL
    THEN removeShiftLate(PullFromNext(L, current), L.nodes[current].m_next)
    ELSE [L |-> L, node |-> current]

\* while (current->m_block.size() < m_blockSize - 1 && current->m_next != nullptr)
RECURSIVE removeShift(_, _)
removeShift(L, current) ==
    IF ~Ok(L) THEN [L |-> L, node |-> current]
    ELSE IF BlockSize(L.nodes[current].m_block) < m_blockSize - 1
            /\ L.nodes[current].m_next # NULL
    THEN removeShift(PullFromNext(L, current), L.nodes[current].m_next)
    ELSE [L |-> L, node |-> current]

\* remove leaves the value it returns in ret (<<>> when it threw)
remove(L, pos) ==
    LET loc == locate(L, pos)
    IN  IF loc.err # "none" THEN Fail(L, loc.err)
        ELSE
        LET d == determineRemoveScenario(L, loc.node)
            L0 == [L EXCEPT !.path = IF d.scenario = "Gather"
                                     THEN "Gather" ELSE "none"]
            L1 == IF d.scenario = "Gather" THEN gather(L0, loc.node) ELSE L0
        IN  IF ~Ok(L1) THEN L1
            ELSE
            LET rem == BlockRemove(L1.nodes[loc.node].m_block, loc.offset)
            IN  IF rem.err # "none" THEN Fail(L1, rem.err)
                ELSE
                LET L2 == [L1 EXCEPT !.nodes[loc.node].m_block = rem.blk,
                                     !.m_size = @ - 1]
                    s == removeShift(L2, loc.node)
                IN  IF ~Ok(s.L) THEN s.L
                    ELSE IF BlockSize(s.L.nodes[s.node].m_block) = 0
                    THEN [removeNode(s.L, s.node) EXCEPT !.ret = rem.val]
                    ELSE [s.L EXCEPT !.ret = rem.val]

push_front(L, element) == insert(L, 0, element)

pop_front(L) == remove(L, 0)

\* m_size - 1 wraps when m_size = 0
pop_back(L) == remove(L, L.m_size - 1)

\* at(pos): <<value>>, or <<>> when it throws
at(L, pos) ==
    LET loc == locate(L, pos)
    IN  IF loc.err # "none" THEN <<>>
        ELSE IF loc.offset >= BlockSize(L.nodes[loc.node].m_block) THEN <<>>
        ELSE <<L.nodes[loc.node].m_block[loc.offset + 1]>>

\* ---------------------------------------------------------------------
\* Node addresses carry no meaning: after every call the nodes are
\* renumbered 1, 2, ... in the order of the m_next chain from m_head.  A
\* pointer to a node that is no longer in the chain becomes DANGLING.
\* ---------------------------------------------------------------------
RECURSIVE ChainFrom(_, _, _)
ChainFrom(nds, n, fuel) ==
    IF n \notin DOMAIN nds \/ fuel = 0 THEN <<>>
    ELSE <<n>> \o ChainFrom(nds, nds[n].m_next, fuel - 1)

\* the nodes owned through m_head and the m_next links, in order
Chain(L) == ChainFrom(L.nodes, L.m_head, Cardinality(DOMAIN L.nodes))

Canon(L) ==
    LET ch == Chain(L)
        Rename(p) == IF p = NULL THEN NULL
                     ELSE IF \E i \in 1..Len(ch) : ch[i] = p
                     THEN CHOOSE i \in 1..Len(ch) : ch[i] = p
                     ELSE DANGLING
    IN  [L EXCEPT !.nodes = [i \in 1..Len(ch) |->
                                [m_next  |-> Rename(L.nodes[ch[i]].m_next),
                                 m_prev  |-> Rename(L.nodes[ch[i]].m_prev),
                                 m_block |-> L.nodes[ch[i]].m_block]],
                  !.m_head = Rename(L.m_head),
                  !.m_tail = Rename(L.m_tail)]

\* ---------------------------------------------------------------------
\* the BlockyLinkedList object and the calls made on it
\* ---------------------------------------------------------------------
\* the list as the member functions see it at the start of a call
Cur == [bll EXCEPT !.err = "none", !.path = "none", !.ret = <<>>]

\* the bound on the elements of value 1
MayInsert(v) == v = 1 => CountMarked(ref) < MaxMarked

\* kind: "insert", "remove" or "roundtrip"; valid: the position is in range;
\* refret: what the plain list returns (<<>>: nothing)
Called(kind, valid, refret) ==
    call' = [kind |-> kind, valid |-> valid, refret |-> refret]

BLLInit ==
    /\ bll = [nodes |-> <<>>, m_head |-> NULL, m_tail |-> NULL, m_size |-> 0,
              err |-> "none", path |-> "none", ret |-> <<>>]
    /\ call = [kind |-> "init", valid |-> TRUE, refret |-> <<>>]
    /\ ref = <<>>

\* insert(pos, v): any pos, also out of range
Insert(pos, v) ==
    /\ pos <= bll.m_size => bll.m_size < MaxSize
    /\ MayInsert(v)
    /\ bll' = Canon(insert(Cur, pos, v))
    /\ Called("insert", pos <= bll.m_size, <<>>)
    /\ ref' = IF pos <= Len(ref) THEN SeqInsert(ref, pos, v) ELSE ref
    /\ UNCHANGED notBLL

\* remove(pos): any pos, also out of range
Remove(pos) ==
    /\ bll' = Canon(remove(Cur, pos))
    /\ Called("remove", pos < bll.m_size,
              IF pos < Len(ref) THEN <<ref[pos + 1]>> ELSE <<>>)
    /\ ref' = IF pos < Len(ref) THEN SeqRemove(ref, pos) ELSE ref
    /\ UNCHANGED notBLL

PushBack(v) ==
    /\ bll.m_size < MaxSize
    /\ MayInsert(v)
    /\ bll' = Canon(push_back(Cur, v))
    /\ Called("insert", TRUE, <<>>)
    /\ ref' = Append(ref, v)
    /\ UNCHANGED notBLL

PushFront(v) ==
    /\ bll.m_size < MaxSize
    /\ MayInsert(v)
    /\ bll' = Canon(push_front(Cur, v))
    /\ Called("insert", TRUE, <<>>)
    /\ ref' = <<v>> \o ref
    /\ UNCHANGED notBLL

PopFront ==
    /\ bll' = Canon(pop_front(Cur))
    /\ Called("remove", bll.m_size > 0, IF ref # <<>> THEN <<Head(ref)>> ELSE <<>>)
    /\ ref' = IF ref # <<>> THEN Tail(ref) ELSE ref
    /\ UNCHANGED notBLL

PopBack ==
    /\ bll' = Canon(pop_back(Cur))
    /\ Called("remove", bll.m_size > 0,
              IF ref # <<>> THEN <<ref[Len(ref)]>> ELSE <<>>)
    /\ ref' = IF ref # <<>> THEN SubSeq(ref, 1, Len(ref) - 1) ELSE ref
    /\ UNCHANGED notBLL

\* insert(pos, v) immediately followed by remove(pos)
insertThenRemove(L, pos, v) ==
    LET r1 == insert(L, pos, v)
    IN  IF ~Ok(r1) THEN r1
        ELSE [remove(r1, pos) EXCEPT !.path = r1.path]

\* the round trip at a pos in [0, size]; path is the rebalancing of the insert,
\* and a plain list returns v
RoundTrip(pos, v) ==
    /\ pos <= bll.m_size
    /\ bll.m_size < MaxSize
    /\ MayInsert(v)
    /\ bll' = Canon(insertThenRemove(Cur, pos, v))
    /\ Called("roundtrip", TRUE, <<v>>)
    /\ ref' = ref
    /\ UNCHANGED notBLL

BLLNext ==
    \/ \E pos \in 0..(MaxSize + 1), v \in Values : Insert(pos, v)
    \/ \E pos \in 0..MaxSize : Remove(pos)
    \/ \E v \in Values : PushBack(v)
    \/ \E v \in Values : PushFront(v)
    \/ PopFront
    \/ PopBack
    \/ \E pos \in 0..MaxSize, v \in Values : RoundTrip(pos, v)

\* ---------------------------------------------------------------------
\* what is observed of the list
\* ---------------------------------------------------------------------
\* the sizes of the blocks along the chain
BlockSizes ==
    LET ch == Chain(bll)
    IN  [i \in 1..Len(ch) |-> BlockSize(bll.nodes[ch[i]].m_block)]

RECURSIVE SumSeq(_)
SumSeq(s) == IF s = <<>> THEN 0 ELSE Head(s) + SumSeq(Tail(s))

\* the elements read by at(0), ..., at(size() - 1)
ContentsOf(L) == [i \in 1..L.m_size |-> at(L, i - 1)]

\* a plain list as at() would read it
Boxed(s) == [i \in 1..Len(s) |-> <<s[i]>>]

\* ---------------------------------------------------------------------
\* BlockyLinkedList: the claims
\* ---------------------------------------------------------------------

\* C1: after any sequence of push_back, push_front, pop_back, pop_front,
\* insert and remove, every node except the last holds between
\* m_blockSize - 1 and m_blockSize + 1 elements.
C1_BlockSizeInvariant ==
    \A i \in 1..(Len(BlockSizes) - 1) :
        BlockSizes[i] \in (m_blockSize - 1)..(m_blockSize + 1)

\* a remove has gathered and interior nodes are left
C1_Witness ==
    /\ call.kind = "remove" /\ bll.path = "Gather" /\ bll.err = "none"
    /\ Len(BlockSizes) >= 3

\* C2: the elements read by at(0..size-1) are those of a plain list given
\* the same calls, and every pop/remove returns what the plain list returns.
C2_SequenceRefinement ==
    /\ bll.m_size = Len(ref)
    /\ ContentsOf(bll) = Boxed(ref)
    /\ call.kind = "remove" => bll.ret = call.refret

\* an insert has spread the elements of full nodes, the element of value 1
\* among them being read from the tail side
C2_Witness ==
    /\ call.kind = "insert" /\ bll.path = "Spread" /\ bll.err = "none"
    /\ \E i \in 1..Len(ref) : i - 1 > Len(ref) \div 2 /\ ref[i] = 1

\* C3 (as claimed): m_head and m_tail are both null exactly when the chain
\* holds no elements.
C3_HeadTailNullIffEmpty ==
    (bll.m_head = NULL /\ bll.m_tail = NULL) <=> bll.m_size = 0

\* C4: after every completed call m_size is the sum of the block sizes of
\* the nodes of the chain.
C4_SizeIsSumOfBlocks ==
    bll.m_size = SumSeq(BlockSizes)

\* a gather has freed a node
C4_Witness ==
    /\ call.kind = "remove" /\ bll.path = "Gather" /\ bll.err = "none"
    /\ bll.m_size >= 2 * m_blockSize

\* C5: insert(pos, v) with pos > size, remove(pos) with pos >= size and
\* pop_front/pop_back/remove on an empty chain fail with an out-of-range
\* error and leave the chain, the blocks and the size as they were.
C5_ErrorsLeaveListUnchanged ==
    [][~call'.valid =>
          /\ bll'.err = "out_of_range"
          /\ bll'.nodes = bll.nodes
          /\ bll'.m_head = bll.m_head
          /\ bll'.m_tail = bll.m_tail
          /\ bll'.m_size = bll.m_size]_bllVars

\* an insert beyond the size of a list of several nodes has been rejected
C5_Witness ==
    /\ call.kind = "insert" /\ ~call.valid /\ bll.err = "out_of_range"
    /\ Len(BlockSizes) >= 2

\* C6: insert(pos, v) immediately followed by remove(pos), for pos in
\* [0, size], returns v and restores the prior size and element order.
C6_RoundTripRestores ==
    [][call'.kind = "roundtrip" =>
          /\ bll'.err = "none"
          /\ bll'.ret = call'.refret
          /\ bll'.m_size = bll.m_size
          /\ ContentsOf(bll') = ContentsOf(bll)]_bllVars

\* a round trip whose insert spread the elements of full nodes
C6_Witness ==
    /\ call.kind = "roundtrip" /\ bll.path = "Spread" /\ bll.err = "none"
    /\ bll.ret = <<1>>

\* C7: insert with pos <= size and remove with pos < size never fail: no
\* step pushes into a full block, pops from an empty block or follows a
\* null link.
C7_ValidCallsNeverFail ==
    call.valid => bll.err = "none"

\* an insert in range has spread the elements of full nodes
C7_Witness ==
    /\ call.kind = "insert" /\ call.valid /\ bll.path = "Spread" /\ bll.err = "none"

\* the sizes of the blocks along the chain of L, and its elements in
\* chain order
SizesAlong(L) ==
    [i \in 1..Len(Chain(L)) |-> BlockSize(L.nodes[Chain(L)[i]].m_block)]

RECURSIVE ElementsFrom(_, _)
ElementsFrom(L, ch) ==
    IF ch = <<>> THEN <<>>
    ELSE L.nodes[Head(ch)].m_block \o ElementsFrom(L, Tail(ch))

ElementsAlong(L) == ElementsFrom(L, Chain(L))

\* where node u is in the chain of L (0: nowhere)
PlaceOf(L, u) ==
    IF \E i \in 1..Len(Chain(L)) : Chain(L)[i] = u
    THEN CHOOSE i \in 1..Len(Chain(L)) : Chain(L)[i] = u
    ELSE 0

\* the node at place i and the n - 1 nodes after it each hold sz elements,
\* and a further node follows them
RunOf(L, i, n, sz) ==
    /\ i >= 1
    /\ i + n <= Len(Chain(L))
    /\ \A k \in 0..(n - 1) : SizesAlong(L)[i + k] = sz

\* S is L with added more nodes in the chain, the n nodes from place i
\* holding m_blockSize elements each, and the same elements in the same
\* order
Evened(L, S, i, n, added) ==
    /\ Ok(S)
    /\ Len(Chain(S)) = Len(Chain(L)) + added
    /\ Chain(S)[i] = Chain(L)[i]
    /\ \A k \in 0..(n - 1) : SizesAlong(S)[i + k] = m_blockSize
    /\ ElementsAlong(S) = ElementsAlong(L)

\* the Spread step of insert(pos, v) on L, u being the node of pos
spreadOf(L, u) ==
    spread(determineInsertScenario(L, u).L, u, determineInsertScenario(L, u).node)

\* C33: when insert(pos, v) targets node u, and u and the next
\* m_blockSize - 1 nodes each hold m_blockSize + 1 elements and a further
\* node follows, insert takes the Spread step, which adds exactly one
\* node and leaves the m_blockSize + 1 nodes from u with m_blockSize
\* elements each, the elements of the list in their order.
C33_SpreadEvensOut ==
    \A pos \in 0..(bll.m_size - 1) :
        (/\ locate(Cur, pos).err = "none"
         /\ RunOf(Cur, PlaceOf(Cur, locate(Cur, pos).node), m_blockSize, m_blockSize + 1)) =>
           /\ determineInsertScenario(Cur, locate(Cur, pos).node).scenario = "Spread"
           /\ Evened(Cur, spreadOf(Cur, locate(Cur, pos).node),
                     PlaceOf(Cur, locate(Cur, pos).node), m_blockSize + 1, 1)

\* an insert has spread: its node holds m_blockSize + 1 elements again and
\* the m_blockSize nodes after it m_blockSize each
C33_Witness ==
    /\ call.kind = "insert" /\ bll.path = "Spread" /\ bll.err = "none"
    /\ \E i \in 1..Len(BlockSizes) :
         /\ i + m_blockSize <= Len(BlockSizes)
         /\ BlockSizes[i] = m_blockSize + 1
         /\ \A k \in 1..m_blockSize : BlockSizes[i + k] = m_blockSize

\* C34: when remove(pos) targets node u, and u and the next
\* m_blockSize - 1 nodes each hold m_blockSize - 1 elements and a further
\* node follows, remove takes the Gather step, which unlinks exactly one
\* node and leaves the m_blockSize - 1 nodes from u with m_blockSize
\* elements each, the elements of the list in their order.
C34_GatherPacks ==
    \A pos \in 0..(bll.m_size - 1) :
        (/\ locate(Cur, pos).err = "none"
         /\ RunOf(Cur, PlaceOf(Cur, locate(Cur, pos).node), m_blockSize, m_blockSize - 1)) =>
           /\ determineRemoveScenario(Cur, locate(Cur, pos).node).scenario = "Gather"
           /\ Evened(Cur, gather(Cur, locate(Cur, pos).node),
                     PlaceOf(Cur, locate(Cur, pos).node), m_blockSize - 1, 0 - 1)

\* a remove has gathered: its node holds m_blockSize - 1 elements again
\* and the m_blockSize - 2 nodes after it m_blockSize each
C34_Witness ==
    /\ call.kind = "remove" /\ bll.path = "Gather" /\ bll.err = "none"
    /\ \E i \in 1..Len(BlockSizes) :
         /\ i + m_blockSize - 2 <= Len(BlockSizes)
         /\ BlockSizes[i] = m_blockSize - 1
         /\ \A k \in 1..(m_blockSize - 2) : BlockSizes[i + k] = m_blockSize

\* the links of a list that has a head node: the head has no
\* predecessor, m_tail is the last node of the chain and has no
\* successor, every successor points back, no node is met twice and
\* every node is in the chain
Linked(L) ==
    L.m_head # NULL =>
      /\ Live(L, L.m_head)
      /\ L.nodes[L.m_head].m_prev = NULL
      /\ L.m_tail = Chain(L)[Len(Chain(L))]
      /\ L.nodes[L.m_tail].m_next = NULL
      /\ \A i \in 1..(Len(Chain(L)) - 1) :
           L.nodes[Chain(L)[i + 1]].m_prev = Chain(L)[i]
      /\ \A i, j \in 1..Len(Chain(L)) : Chain(L)[i] = Chain(L)[j] => i = j
      /\ DOMAIN L.nodes = {Chain(L)[i] : i \in 1..Len(Chain(L))}

\* C35: whenever the chain is not empty, the head node has no
\* predecessor, m_tail is the last node reached from m_head through the
\* m_next links and has no successor, and the m_prev of every successor
\* is the node before it: there is no cycle and no node outside the
\* chain.  This holds of the list after every call, and of what every
\* insert and remove in range leaves on the heap.
C35_LinksAreConsistent ==
    /\ Linked(bll)
    /\ bll.m_size < MaxSize => \A pos \in 0..bll.m_size : Linked(insert(Cur, pos, 0))
    /\ \A pos \in 0..(bll.m_size - 1) : Linked(remove(Cur, pos))

\* an insert has put a node into the middle of a chain
C35_Witness ==
    /\ call.kind = "insert" /\ bll.path = "Spread" /\ bll.err = "none"
    /\ Len(Chain(bll)) >= m_blockSize + 2
    /\ bll.nodes[bll.m_tail].m_prev = Len(Chain(bll)) - 1
    /\ BlockSizes[Len(BlockSizes)] < m_blockSize

TypeBLL == bll.m_size \in 0..MaxSize

\* ---------------------------------------------------------------------
\* ArrayList<T> (include/dsa/array_list.hpp), the block of a RootishArray:
\* elems are its m_size elements, cap is capacity()
\* ---------------------------------------------------------------------
\* ArrayList{}: no buffer
EmptyList == [elems |-> <<>>, cap |-> 0]

al_reserve(al, count) ==
    IF count > al.cap THEN [al EXCEPT !.cap = count] ELSE al

al_grow(al) == al_reserve(al, IF al.cap = 0 THEN 1 ELSE 2 * al.cap)

al_insert(al, pos, element) ==
    IF pos > Len(al.elems)
    THEN [err |-> "out_of_range", al |-> al]
    ELSE LET grown == IF Len(al.elems) = al.cap THEN al_grow(al) ELSE al
         IN  [err |-> "none",
              al  |-> [grown EXCEPT !.elems = SeqInsert(al.elems, pos, element)]]

\* a pos below 0 is the wrapped m_size - 1 of an empty list
al_remove(al, pos) ==
    IF pos < 0 \/ pos >= Len(al.elems)
    THEN [err |-> "out_of_range", al |-> al, val |-> <<>>]
    ELSE [err |-> "none",
          al  |-> [al EXCEPT !.elems = SeqRemove(al.elems, pos)],
          val |-> <<al.elems[pos + 1]>>]

al_push_back(al, value) == al_insert(al, Len(al.elems), value)

al_pop_back(al) == al_remove(al, Len(al.elems) - 1)

\* <<>>: out_of_range is thrown
al_at(al, pos) ==
    IF pos < 0 \/ pos >= Len(al.elems) THEN <<>> ELSE <<al.elems[pos + 1]>>

\* ---------------------------------------------------------------------
\* RootishArray (include/dsa/rootish_array.hpp): A.m_blocks is the
\* ArrayList of blocks, A.err the exception a call ended with, A.ret what
\* remove returned
\* ---------------------------------------------------------------------
\* m_blocks.at(pos) does not throw
HasBlock(A, pos) == pos >= 0 /\ pos < Len(A.m_blocks)

\* block(pos), for a pos that m_blocks.at accepts
block(A, pos) == A.m_blocks[pos + 1]

SetBlock(A, pos, al) == [A EXCEPT !.m_blocks[pos + 1] = al]

\* block(m_blocks.size() - 2); m_blocks never holds exactly one block
nearEmpty(A) == block(A, Len(A.m_blocks) - 2)

ra_size(A) ==
    IF Len(A.m_blocks) = 0 THEN 0
    ELSE LET numBlocks     == Len(A.m_blocks) - 1
             lastBlockSize == Len(nearEmpty(A).elems)
         IN  (numBlocks * (numBlocks + 1)) \div 2 - (numBlocks - lastBlockSize)

\* floor in place of ceil: the greatest b with (2b + 3)^2 <= 9 + 8 pos
elementIndexFloor(pos) ==
    LET b == CHOOSE k \in 0..pos :
                 /\ (2 * k + 3) * (2 * k + 3) <= 9 + 8 * pos
                 /\ (2 * k + 5) * (2 * k + 5) > 9 + 8 * pos
    IN  [block |-> b, index |-> pos - (b * (b + 1)) \div 2]

\* ceil((-3 + sqrt(9 + 8 pos)) / 2) is the least b with (2b + 3)^2 >= 9 + 8 pos
elementIndex(pos) ==
    LET b == CHOOSE k \in 0..pos :
                 /\ (2 * k + 3) * (2 * k + 3) >= 9 + 8 * pos
                 /\ \A j \in 0..(k - 1) : (2 * j + 3) * (2 * j + 3) < 9 + 8 * pos
    IN  [block |-> b, index |-> pos - (b * (b + 1)) \div 2]

grow(A) ==
    [A EXCEPT !.m_blocks = Append(@, al_reserve(EmptyList, Len(@) + 1))]

\* shrink, dropping nothing
shrinkNot(A) == A

shrink(A) ==
    [A EXCEPT !.m_blocks = SubSeq(@, 1, Len(@) - 1)]

\* the loop of insert: block(i) takes the last element of block(i - 1)
RECURSIVE insertLoop(_, _, _)
insertLoop(A, i, blockIdx) ==
    IF i <= blockIdx THEN A
    ELSE LET popped == al_pop_back(block(A, i - 1))
         IN  IF popped.err # "none" THEN Fail(A, popped.err)
             ELSE LET taken == al_insert(block(A, i), 0, popped.val[1])
                  IN  insertLoop(SetBlock(SetBlock(A, i - 1, popped.al), i, taken.al),
                                 i - 1, blockIdx)

\* insert with the range check off by one
ra_insertLateCheck(A, pos, value) ==
    IF pos > ra_size(A) + 1 THEN Fail(A, "out_of_range")
    ELSE IF ra_size(A) = 0
    THEN LET grown == grow(grow(A))
         IN  SetBlock(grown, 0, al_push_back(block(grown, 0), value).al)
    ELSE LET grown == IF Len(nearEmpty(A).elems) = nearEmpty(A).cap
                      THEN grow(A) ELSE A
             idx    == elementIndex(pos)
             moved  == insertLoop(grown, Len(grown.m_blocks) - 2, idx.block)
         IN  IF ~Ok(moved) THEN moved
             ELSE IF ~HasBlock(moved, idx.block) THEN Fail(moved, "out_of_range")
             ELSE LET r == al_insert(block(moved, idx.block), idx.index, value)
                  IN  IF r.err # "none" THEN Fail(moved, r.err)
                      ELSE SetBlock(moved, idx.block, r.al)

ra_insert(A, pos, value) ==
    IF pos > ra_size(A) THEN Fail(A, "out_of_range")
    ELSE IF ra_size(A) = 0
    THEN LET grown == grow(grow(A))
         IN  SetBlock(grown, 0, al_push_back(block(grown, 0), value).al)
    ELSE LET grown == IF Len(nearEmpty(A).elems) = nearEmpty(A).cap
                      THEN grow(A) ELSE A
             idx    == elementIndex(pos)
             moved  == insertLoop(grown, Len(grown.m_blocks) - 2, idx.block)
         IN  IF ~Ok(moved) THEN moved
             ELSE IF ~HasBlock(moved, idx.block) THEN Fail(moved, "out_of_range")
             ELSE LET r == al_insert(block(moved, idx.block), idx.index, value)
                  IN  IF r.err # "none" THEN Fail(moved, r.err)
                      ELSE SetBlock(moved, idx.block, r.al)

\* the loop of remove: block(i) takes the first element of block(i + 1)
RECURSIVE removeLoop(_, _)
removeLoop(A, i) ==
    IF i >= Len(A.m_blocks) - 2 THEN A
    ELSE LET first == al_remove(block(A, i + 1), 0)
         IN  IF first.err # "none" THEN Fail(A, first.err)
             ELSE LET taken == al_push_back(block(A, i), first.val[1])
                  IN  removeLoop(SetBlock(SetBlock(A, i + 1, first.al), i, taken.al),
                                 i + 1)

\* a pos below 0 is the wrapped size() - 1 of pop_back on size() = 0
ra_remove(A, pos) ==
    IF pos < 0 \/ pos >= ra_size(A) THEN Fail(A, "out_of_range")
    ELSE LET idx == elementIndex(pos)
         IN  IF ~HasBlock(A, idx.block) THEN Fail(A, "out_of_range")
             ELSE LET r == al_remove(block(A, idx.block), idx.index)
                  IN  IF r.err # "none" THEN Fail(A, r.err)
                      ELSE LET moved == removeLoop(SetBlock(A, idx.block, r.al),
                                                   idx.block)
                           IN  IF ~Ok(moved) THEN moved
                               ELSE [(IF /\ Len(nearEmpty(moved).elems) = 0
                                         /\ Len(moved.m_blocks) > 2
                                      THEN shrink(moved) ELSE moved)
                                     EXCEPT !.ret = r.val]

ra_push_back(A, value) == ra_insert(A, ra_size(A), value)

ra_pop_back(A) == ra_remove(A, ra_size(A) - 1)

\* <<>>: out_of_range is thrown
ra_at(A, pos) ==
    LET idx == elementIndex(pos)
    IN  IF ~HasBlock(A, idx.block) THEN <<>>
        ELSE al_at(block(A, idx.block), idx.index)

\* ---------------------------------------------------------------------
\* the RootishArray object and the calls made on it
\* ---------------------------------------------------------------------
RACur == [ra EXCEPT !.err = "none", !.ret = <<>>]

RACalled(kind, valid, refret) ==
    racall' = [kind |-> kind, valid |-> valid, refret |-> refret]

\* the elements of the blocks, block after block
RECURSIVE Flatten(_)
Flatten(blocks) ==
    IF blocks = <<>> THEN <<>> ELSE Head(blocks).elems \o Flatten(Tail(blocks))

\* the bounds on the elements given to the array
RAMayInsert(v) ==
    /\ ra_size(ra) < RAMaxSize
    /\ Len(raref) < RAMaxSize
    /\ rastored < RAMaxSize
    /\ v = 1 => /\ CountMarked(raref) < MaxMarked
                /\ CountMarked(Flatten(ra.m_blocks)) < MaxMarked

RAInit ==
    /\ ra = [m_blocks |-> <<>>, err |-> "none", ret |-> <<>>]
    /\ racall = [kind |-> "init", valid |-> TRUE, refret |-> <<>>]
    /\ raref = <<>>
    /\ rastored = 0

\* insert(pos, v): any pos, also out of range
RAInsert(pos, v) ==
    /\ (pos <= ra_size(ra) \/ pos <= Len(raref)) => RAMayInsert(v)
    /\ ra' = ra_insert(RACur, pos, v)
    /\ RACalled("insert", pos <= ra_size(ra), <<>>)
    /\ raref' = IF pos <= Len(raref) THEN SeqInsert(raref, pos, v) ELSE raref
    /\ rastored' = IF Ok(ra') THEN rastored + 1 ELSE rastored
    /\ UNCHANGED notRA

\* remove(pos): any pos, also out of range
RARemove(pos) ==
    /\ ra' = ra_remove(RACur, pos)
    /\ RACalled("remove", pos < ra_size(ra),
                IF pos < Len(raref) THEN <<raref[pos + 1]>> ELSE <<>>)
    /\ raref' = IF pos < Len(raref) THEN SeqRemove(raref, pos) ELSE raref
    /\ rastored' = IF Ok(ra') THEN rastored - 1 ELSE rastored
    /\ UNCHANGED notRA

RAPushBack(v) ==
    /\ RAMayInsert(v)
    /\ ra' = ra_push_back(RACur, v)
    /\ RACalled("insert", TRUE, <<>>)
    /\ raref' = Append(raref, v)
    /\ rastored' = IF Ok(ra') THEN rastored + 1 ELSE rastored
    /\ UNCHANGED notRA

RAPopBack ==
    /\ ra' = ra_pop_back(RACur)
    /\ RACalled("remove", ra_size(ra) > 0,
                IF raref # <<>> THEN <<raref[Len(raref)]>> ELSE <<>>)
    /\ raref' = IF raref # <<>> THEN SubSeq(raref, 1, Len(raref) - 1) ELSE raref
    /\ rastored' = IF Ok(ra') THEN rastored - 1 ELSE rastored
    /\ UNCHANGED notRA

\* insert(pos, v) immediately followed by remove(pos)
ra_insertThenRemove(A, pos, v) ==
    LET r1 == ra_insert(A, pos, v)
    IN  IF ~Ok(r1) THEN r1 ELSE ra_remove(r1, pos)

\* the round trip at a pos in [0, size()]; a plain list returns v
RARoundTrip(pos, v) ==
    /\ pos <= ra_size(ra)
    /\ RAMayInsert(v)
    /\ ra' = ra_insertThenRemove(RACur, pos, v)
    /\ RACalled("roundtrip", TRUE, <<v>>)
    /\ raref' = raref
    /\ rastored' = IF ~Ok(ra') /\ Ok(ra_insert(RACur, pos, v))
                   THEN rastored + 1 ELSE rastored
    /\ UNCHANGED notRA

RANext ==
    \/ \E pos \in 0..(RAMaxSize + 1), v \in Values : RAInsert(pos, v)
    \/ \E pos \in 0..RAMaxSize : RARemove(pos)
    \/ \E v \in Values : RAPushBack(v)
    \/ RAPopBack
    \/ \E pos \in 0..RAMaxSize, v \in Values : RARoundTrip(pos, v)

\* the calls whose position is in range for a plain list given the same calls
RAValidInsert(pos, v) == pos <= Len(raref) /\ RAInsert(pos, v)

RAValidRemove(pos) == pos < Len(raref) /\ RARemove(pos)

RAValidPopBack == raref # <<>> /\ RAPopBack

RAValidNext ==
    \/ \E pos \in 0..RAMaxSize, v \in Values : RAValidInsert(pos, v)
    \/ \E pos \in 0..RAMaxSize : RAValidRemove(pos)
    \/ \E v \in Values : RAPushBack(v)
    \/ RAValidPopBack

\* the calls of push_back, insert and pop_back alone
RAPushNext ==
    \/ \E pos \in 0..(RAMaxSize + 1), v \in Values : RAInsert(pos, v)
    \/ \E v \in Values : RAPushBack(v)
    \/ RAPopBack

\* the calls that do not remove the last element of the array
RAKeptRemove(pos) == (pos < ra_size(ra) => ra_size(ra) >= 2) /\ RARemove(pos)

RAKeptPopBack == ra_size(ra) # 1 /\ RAPopBack

RAKeptNext ==
    \/ \E pos \in 0..(RAMaxSize + 1), v \in Values : RAInsert(pos, v)
    \/ \E pos \in 0..RAMaxSize : RAKeptRemove(pos)
    \/ \E v \in Values : RAPushBack(v)
    \/ RAKeptPopBack

\* ---------------------------------------------------------------------
\* RootishArray::elementIndex called on its own, at any position
\* ---------------------------------------------------------------------
EIInit == ei = [called |-> FALSE, pos |-> 0, ret |-> [block |-> 0, index |-> 0]]

ElementIndex(pos) ==
    /\ ei' = [called |-> TRUE, pos |-> pos, ret |-> elementIndex(pos)]
    /\ UNCHANGED notEI

EINext == \E pos \in 0..MaxPos : ElementIndex(pos)

\* ---------------------------------------------------------------------
\* RawBuffer (raw_buffer.hpp): an arena of slots.  A slot is a record
\* [c, v]: c says whether an element is alive in the slot, v is what the
\* memory of the slot holds (GARBAGE when nothing was ever written, MOVED
\* after the element was moved from).
\*
\* An option record o = [debug, stale, trap] fixes what the code leaves
\* open: o.debug says whether the build keeps RawBuffer's m_constructed
\* bookkeeping and its assertions (DSA_RAW_BUFFER_DEBUG), o.stale
\* whether the read of a slot with no live element still yields what the
\* memory held, o.trap whether an integer division by zero stops the
\* program (as on x86) or yields the dividend as remainder (as on
\* AArch64).  Every call is tried under every option.
\* ---------------------------------------------------------------------

Options == [debug : BOOLEAN, stale : BOOLEAN, trap : BOOLEAN]

Slot(c, v) == [c |-> c, v |-> v]

RawBuffer(size) == [i \in 1..size |-> Slot(FALSE, GARBAGE)]

\* the records below carry the arenas in named fields (f is the name of
\* one), the pending failure in err ("none" while there is none) and, in
\* ub, whether the call has left defined behaviour
CBOk(B) == B.err = "none"

CBFail(B, e) == [B EXCEPT !.err = e]

InArena(buf, offset) == offset >= 0 /\ offset < Len(buf)

rb_at(buf, pos, o) ==
    IF ~InArena(buf, pos) THEN GARBAGE
    ELSE IF buf[pos + 1].c \/ o.stale THEN buf[pos + 1].v
    ELSE GARBAGE

\* whether the read of slot pos is undefined
rb_undefinedRead(buf, pos) == ~InArena(buf, pos) \/ ~buf[pos + 1].c

rb_construct(B, f, offset, v, o) ==
    IF ~CBOk(B) THEN B
    ELSE IF ~InArena(B[f], offset) THEN [B EXCEPT !.ub = TRUE]
    ELSE IF o.debug /\ B[f][offset + 1].c THEN CBFail(B, "assert")
    ELSE [B EXCEPT ![f][offset + 1] = Slot(TRUE, v)]

rb_destroy(B, f, offset, o) ==
    IF ~CBOk(B) THEN B
    ELSE IF ~InArena(B[f], offset) THEN [B EXCEPT !.ub = TRUE]
    ELSE IF B[f][offset + 1].c THEN [B EXCEPT ![f][offset + 1].c = FALSE]
    ELSE IF o.debug THEN CBFail(B, "assert")
    ELSE [B EXCEPT !.ub = TRUE]

\* std::move(m_buffer.at(pos)) into a new object: the value read, and the
\* record after the read
rb_moveFrom(B, f, pos) ==
    IF ~CBOk(B) THEN B
    ELSE IF rb_undefinedRead(B[f], pos) THEN [B EXCEPT !.ub = TRUE]
    ELSE [B EXCEPT ![f][pos + 1].v = MOVED]

\* m_buffer.at(pos) = std::move(value)
rb_assign(B, f, pos, v) ==
    IF ~CBOk(B) THEN B
    ELSE IF ~InArena(B[f], pos) THEN [B EXCEPT !.ub = TRUE]
    ELSE [B EXCEPT ![f][pos + 1].v = v, !.ub = @ \/ ~B[f][pos + 1].c]

\* ---------------------------------------------------------------------
\* CircularBuffer (circular_buffer.hpp).  The record of a buffer has the
\* fields m_buffer, m_head, m_tail, m_capacity and m_store (the two
\* halves of m_policy), buffer (the local arena of resize, empty outside
\* it), err, ub, ret (what the last call returned) and leaked (whether
\* the call came to free an arena in which an element was still alive).
\* ---------------------------------------------------------------------

capacity(B) == Len(B.m_buffer)

\* size() where it returns; with capacity() == 0 and m_tail # npos it
\* divides by zero, see sizeTraps
cb_size(B) ==
    IF B.m_tail = npos THEN capacity(B)
    ELSE IF capacity(B) = 0 THEN B.m_tail - B.m_head
    ELSE (B.m_tail + capacity(B) - B.m_head) % capacity(B)

\* size() divides by zero and the division stops the program
sizeTraps(B, o) == o.trap /\ B.m_tail # npos /\ capacity(B) = 0

\* a failed assertion or a trap has ended the program
Ended(B) == B.err \in {"assert", "fpe"}

CircularBuffer(cap, m_capacity, m_store) ==
    [m_buffer |-> RawBuffer(cap), m_head |-> 0,
     m_tail |-> IF cap = 0 THEN npos ELSE 0,
     m_capacity |-> m_capacity, m_store |-> m_store,
     buffer |-> <<>>, err |-> "none", ub |-> FALSE, ret |-> 0, leaked |-> FALSE]

RECURSIVE clearLoop(_, _, _)
clearLoop(B, i, o) ==
    IF ~CBOk(B) \/ i >= cb_size(B) THEN B
    ELSE clearLoop(rb_destroy(B, "m_buffer", (B.m_head + i) % capacity(B), o), i + 1, o)

\* the record D a loop has left, with the cursors set when nothing failed
withCursors(D, head, tail) ==
    IF CBOk(D) THEN [D EXCEPT !.m_head = head, !.m_tail = tail] ELSE D

cb_clear(B, o) ==
    IF sizeTraps(B, o) THEN CBFail(B, "fpe")
    ELSE withCursors(clearLoop(B, 0, o), 0, 0)

\* the loop of the growing branch of resize
RECURSIVE growLoop(_, _, _)
growLoop(B, i, o) ==
    IF ~CBOk(B) \/ i >= cb_size(B) THEN B
    ELSE LET idx == (B.m_head + i) % capacity(B)
             v   == rb_at(B.m_buffer, idx, o)
             B1  == rb_construct(rb_moveFrom(B, "m_buffer", idx), "buffer", i, v, o)
         IN  growLoop(rb_destroy(B1, "m_buffer", i, o), i + 1, o)

Min(a, b) == IF a <= b THEN a ELSE b

\* the loop of BufferResizePolicy::DiscardOld
RECURSIVE discardOldLoop(_, _, _, _, _)
discardOldLoop(B, begin, i, n, o) ==
    IF ~CBOk(B) \/ i >= n THEN B
    ELSE LET idx == (begin + i) % capacity(B)
             v   == rb_at(B.m_buffer, idx, o)
             B1  == rb_construct(rb_moveFrom(B, "m_buffer", idx), "buffer", i, v, o)
         IN  discardOldLoop(rb_destroy(B1, "m_buffer", idx, o), begin, i + 1, n, o)

\* the loop of BufferResizePolicy::DiscardNew; i counts down to 0
RECURSIVE discardNewLoop(_, _, _, _)
discardNewLoop(B, end, i, o) ==
    IF ~CBOk(B) \/ i <= 0 THEN B
    ELSE LET e  == (end + capacity(B) - 1) % capacity(B)
             v  == rb_at(B.m_buffer, e, o)
             B1 == rb_construct(rb_moveFrom(B, "m_buffer", e), "buffer", i - 1, v, o)
         IN  discardNewLoop(rb_destroy(B1, "m_buffer", e, o), e, i - 1, o)

\* the arena buf holds an element that was not destroyed
Leaks(buf) == \E j \in 1..Len(buf) : buf[j].c

\* m_buffer = std::move(buffer), and the cursors set, when nothing failed;
\* RawBuffer's move assignment frees the old arena as it is
adopt(D, head, tail) ==
    IF CBOk(D)
    THEN [D EXCEPT !.m_buffer = D.buffer, !.buffer = <<>>, !.m_head = head, !.m_tail = tail,
                   !.leaked = Leaks(D.m_buffer)]
    ELSE D

\* the growing branch of resize
resizeGrow(B, newCapacity, o) ==
    adopt(growLoop([B EXCEPT !.buffer = RawBuffer(newCapacity)], 0, o),
          0,
          IF B.m_tail = npos THEN capacity(B)
          ELSE (B.m_tail + capacity(B) - B.m_head) % capacity(B))

\* the shrinking branch of resize with DiscardOld starting at m_head
resizeShrinkFromHead(B, newCapacity, policy, count, offset, o) ==
    adopt(IF policy = "DiscardOld"
          THEN discardOldLoop([B EXCEPT !.buffer = RawBuffer(newCapacity)],
                              B.m_head, 0, Min(newCapacity, count), o)
          ELSE discardNewLoop([B EXCEPT !.buffer = RawBuffer(newCapacity)],
                              ((IF B.m_tail = npos THEN B.m_head ELSE B.m_tail)
                                 + capacity(B) - offset) % capacity(B),
                              Min(newCapacity, count), o),
          0,
          IF count <= newCapacity THEN count ELSE npos)

\* the shrinking branch of resize, count and offset as resize computes them
resizeShrink(B, newCapacity, policy, count, offset, o) ==
    adopt(IF policy = "DiscardOld"
          THEN discardOldLoop([B EXCEPT !.buffer = RawBuffer(newCapacity)],
                              (B.m_head + offset) % capacity(B),
                              0, Min(newCapacity, count), o)
          ELSE discardNewLoop([B EXCEPT !.buffer = RawBuffer(newCapacity)],
                              ((IF B.m_tail = npos THEN B.m_head ELSE B.m_tail)
                                 + capacity(B) - offset) % capacity(B),
                              Min(newCapacity, count), o),
          0,
          IF count <= newCapacity THEN count ELSE npos)

cb_resize(B, newCapacity, policy, o) ==
    IF ~CBOk(B) THEN B
    ELSE IF newCapacity = 0 THEN withCursors(cb_clear(B, o), 0, npos)
    ELSE IF newCapacity = capacity(B) THEN B
    ELSE IF sizeTraps(B, o) THEN CBFail(B, "fpe")
    ELSE IF cb_size(B) = 0
    THEN [B EXCEPT !.m_buffer = RawBuffer(newCapacity), !.m_head = 0, !.m_tail = 0,
                   !.leaked = Leaks(B.m_buffer)]
    ELSE IF newCapacity > capacity(B) THEN resizeGrow(B, newCapacity, o)
    ELSE resizeShrink(B, newCapacity, policy, cb_size(B),
                 IF cb_size(B) <= newCapacity THEN 0 ELSE cb_size(B) - newCapacity, o)

\* the first check of push_front and of push_back: a buffer of capacity
\* 0 grows to capacity 1, or refuses the value
zeroGuard(B, o) ==
    IF capacity(B) # 0 THEN B
    ELSE IF B.m_capacity = "DynamicCapacity" THEN cb_resize(B, 1, "DiscardOld", o)
    ELSE CBFail(B, "logic_error")

\* the second check without its ThrowOnFull branch
fullGuardNoThrow(B, o) ==
    IF ~CBOk(B) \/ B.m_tail # npos THEN B
    ELSE IF B.m_capacity = "DynamicCapacity"
    THEN cb_resize(B, capacity(B) * 2, "DiscardOld", o)
    ELSE B

\* the second check of push_front and of push_back: a full buffer
\* doubles, refuses the value, or goes on to replace an element
fullGuard(B, o) ==
    IF ~CBOk(B) \/ B.m_tail # npos THEN B
    ELSE IF B.m_capacity = "DynamicCapacity"
    THEN cb_resize(B, capacity(B) * 2, "DiscardOld", o)
    ELSE IF B.m_store = "ThrowOnFull" THEN CBFail(B, "out_of_range")
    ELSE B

\* return m_buffer.at(current)
returning(B, current, o) ==
    IF CBOk(B) THEN [B EXCEPT !.ret = rb_at(B.m_buffer, current, o)] ELSE B

\* what push_front does once the checks have passed, replacing the
\* front element of a full buffer
storeFrontAtHead(B, current, value, o) ==
    IF ~CBOk(B) THEN B
    ELSE IF B.m_tail # npos
    THEN returning(withCursors(rb_construct(B, "m_buffer", current, value, o), current,
                               IF current = B.m_tail THEN npos ELSE B.m_tail),
                   current, o)
    ELSE returning(rb_assign(B, "m_buffer", B.m_head, value), B.m_head, o)

\* what push_front does once the checks have passed; current is the slot
\* before m_head
storeFront(B, current, value, o) ==
    IF ~CBOk(B) THEN B
    ELSE IF B.m_tail # npos
    THEN returning(withCursors(rb_construct(B, "m_buffer", current, value, o), current,
                               IF current = B.m_tail THEN npos ELSE B.m_tail),
                   current, o)
    ELSE returning(withCursors(rb_assign(B, "m_buffer", current, value), current, B.m_tail),
                   current, o)

\* the slot before m_head
before(B) == IF B.m_head = 0 THEN capacity(B) - 1 ELSE B.m_head - 1

\* the slot after slot i
after(B, i) == IF i + 1 = capacity(B) THEN 0 ELSE i + 1

pushFrontChecked(B, value, o) == storeFront(B, before(B), value, o)

cb_push_front(B, value, o) == pushFrontChecked(fullGuard(zeroGuard(B, o), o), value, o)

\* what push_back does once the checks have passed, m_head left where it
\* is when an element is replaced
storeBackNoAdvance(B, value, o) ==
    IF ~CBOk(B) THEN B
    ELSE IF B.m_tail # npos
    THEN returning(withCursors(rb_construct(B, "m_buffer", B.m_tail, value, o), B.m_head,
                               IF after(B, B.m_tail) = B.m_head THEN npos
                               ELSE after(B, B.m_tail)),
                   B.m_tail, o)
    ELSE returning(rb_assign(B, "m_buffer", B.m_head, value), B.m_head, o)

\* what push_back does once the checks have passed
storeBack(B, value, o) ==
    IF ~CBOk(B) THEN B
    ELSE IF B.m_tail # npos
    THEN returning(withCursors(rb_construct(B, "m_buffer", B.m_tail, value, o), B.m_head,
                               IF after(B, B.m_tail) = B.m_head THEN npos
                               ELSE after(B, B.m_tail)),
                   B.m_tail, o)
    ELSE returning(withCursors(rb_assign(B, "m_buffer", B.m_head, value),
                               after(B, B.m_head), B.m_tail),
                   B.m_head, o)

cb_push_back(B, value, o) == storeBack(fullGuard(zeroGuard(B, o), o), value, o)

\* the tail of pop_front and of pop_back: halve a DynamicCapacity buffer
\* that is down to a quarter of its capacity
shrinkAfterPop(B, o) ==
    IF CBOk(B) /\ B.m_capacity = "DynamicCapacity" /\ cb_size(B) = capacity(B) \div 4
    THEN cb_resize(B, capacity(B) \div 2, "DiscardOld", o)
    ELSE B

\* what pop_front and pop_back do with slot index: the element is moved
\* out and destroyed, the cursors are set and the buffer may shrink
popped(B, index, value, head, tail, o) ==
    shrinkAfterPop(
        withCursors([rb_destroy(rb_moveFrom(B, "m_buffer", index), "m_buffer", index, o)
                       EXCEPT !.ret = value],
                    head, tail),
        o)

\* pop_front that lets m_head run past the last slot
cb_pop_frontNoWrap(B, o) ==
    IF sizeTraps(B, o) THEN CBFail(B, "fpe")
    ELSE IF cb_size(B) = 0 THEN CBFail(B, "out_of_range")
    ELSE popped(B, B.m_head, rb_at(B.m_buffer, B.m_head, o),
                B.m_head + 1,
                IF B.m_tail = npos THEN B.m_head ELSE B.m_tail, o)

cb_pop_front(B, o) ==
    IF sizeTraps(B, o) THEN CBFail(B, "fpe")
    ELSE IF cb_size(B) = 0 THEN CBFail(B, "out_of_range")
    ELSE popped(B, B.m_head, rb_at(B.m_buffer, B.m_head, o),
                after(B, B.m_head),
                IF B.m_tail = npos THEN B.m_head ELSE B.m_tail, o)

\* backIndex without the wrap from slot 0 to the last slot
backIndexNoWrap(B) ==
    IF B.m_tail = npos THEN before(B) ELSE B.m_tail - 1

\* the slot pop_back empties
backIndex(B) ==
    IF B.m_tail = npos THEN before(B)
    ELSE IF B.m_tail = 0 THEN capacity(B) - 1 ELSE B.m_tail - 1

cb_pop_back(B, o) ==
    IF sizeTraps(B, o) THEN CBFail(B, "fpe")
    ELSE IF cb_size(B) = 0 THEN CBFail(B, "out_of_range")
    ELSE popped(B, backIndex(B), rb_at(B.m_buffer, backIndex(B), o),
                B.m_head, backIndex(B), o)

cb_at(B, pos, o) ==
    IF sizeTraps(B, o) THEN CBFail(B, "fpe")
    ELSE IF pos >= cb_size(B) THEN CBFail(B, "out_of_range")
    ELSE LET realpos == (B.m_head + pos) % capacity(B)
         IN  [B EXCEPT !.ret = rb_at(B.m_buffer, realpos, o),
                       !.ub = rb_undefinedRead(B.m_buffer, realpos)]

\* std::rotate(data(), data() + m_head, data() + capacity()): the slot
\* at m_head comes first.  The bookkeeping of a debug build stays where
\* it is; without it c, which then only says where the live elements
\* are, goes with them.  When the rotation passes over a slot without a
\* live element the elements either arrive as they were or do not.
rotated(B, o) ==
    [B EXCEPT !.m_buffer =
        [i \in 1..capacity(B) |->
            LET from == B.m_buffer[((i - 1 + B.m_head) % capacity(B)) + 1]
                dead == B.m_head # 0 /\ \E j \in 1..capacity(B) : ~B.m_buffer[j].c
            IN  Slot(IF o.debug THEN B.m_buffer[i].c ELSE from.c,
                     IF dead /\ ~o.stale THEN GARBAGE ELSE from.v)],
      !.ub = B.m_head # 0 /\ \E j \in 1..capacity(B) : ~B.m_buffer[j].c]

\* m_tail as linearize recomputes it
linearTail(B) ==
    IF B.m_tail = npos THEN npos
    ELSE IF capacity(B) = 0 THEN B.m_tail - B.m_head
    ELSE (B.m_tail + capacity(B) - B.m_head) % capacity(B)

cb_linearize(B, o) ==
    IF B.m_head = 0 /\ B.m_tail = npos THEN B
    ELSE IF sizeTraps(B, o) THEN CBFail(B, "fpe")
    ELSE withCursors(rotated(B, o), 0, linearTail(B))

\* the loop of the copy constructor: N is the new buffer, B the one
\* copied
RECURSIVE copyLoop(_, _, _, _)
copyLoop(N, B, i, o) ==
    IF ~CBOk(N) \/ i >= cb_size(N) THEN N
    ELSE copyLoop(rb_construct([N EXCEPT !.ub = @ \/ rb_undefinedRead(B.m_buffer, i)],
                               "m_buffer", i, rb_at(B.m_buffer, i, o), o),
                  B, i + 1, o)

\* CircularBuffer(const CircularBuffer& other): the new buffer
cb_copy(B, o) ==
    IF sizeTraps(B, o) THEN CBFail(B, "fpe")
    ELSE copyLoop([B EXCEPT !.m_buffer = RawBuffer(capacity(B))], B, 0, o)

\* a moved-from buffer that keeps DynamicCapacity
movedFromDynamic ==
    [m_buffer |-> <<>>, m_head |-> 0, m_tail |-> npos,
     m_capacity |-> "DynamicCapacity", m_store |-> "ReplaceOnFull",
     buffer |-> <<>>, err |-> "none", ub |-> FALSE, ret |-> 0, leaked |-> FALSE]

\* CircularBuffer(CircularBuffer&& other): what is left in other
movedFrom ==
    [m_buffer |-> <<>>, m_head |-> 0, m_tail |-> npos,
     m_capacity |-> "FixedCapacity", m_store |-> "ReplaceOnFull",
     buffer |-> <<>>, err |-> "none", ub |-> FALSE, ret |-> 0, leaked |-> FALSE]

\* ~RawBuffer() on the arena of D, after clear(); the debug build stops
\* the program before it frees an arena with a live element
releaseArena(D, o) ==
    IF ~CBOk(D) \/ capacity(D) = 0 THEN D
    ELSE IF Leaks(D.m_buffer) /\ o.debug THEN [D EXCEPT !.err = "assert", !.leaked = TRUE]
    ELSE [D EXCEPT !.m_buffer = <<>>, !.leaked = Leaks(D.m_buffer)]

\* ~CircularBuffer(): clear(), then the members are destroyed
cb_destroy(B, o) == releaseArena(cb_clear(B, o), o)

\* what operator=(CircularBuffer&&) leaves in *this once clear() has
\* left D: the members of O, the arena of D freed as it is
assigned(D, O) ==
    IF ~CBOk(D) THEN D
    ELSE [O EXCEPT !.ub = D.ub, !.leaked = Leaks(D.m_buffer)]

\* B = std::move(O), B and O being two buffers
cb_moveAssign(B, O, o) == assigned(cb_clear(B, o), O)

\* ---------------------------------------------------------------------
\* the calls made on one CircularBuffer.  The k-th value pushed is k, so
\* every element tells when it was pushed.
\* ---------------------------------------------------------------------

\* the buffer as a call finds it: no failure pending
CBCur == [cb EXCEPT !.err = "none", !.ub = FALSE, !.ret = 0, !.leaked = FALSE]

\* the buffer has been constructed, the program has not ended and its
\* behaviour is still defined
CBRunning ==
    /\ cbcall.kind \notin {"none", "~CircularBuffer"}
    /\ ~Ended(cb) /\ ~Ended(other)
    /\ ~cb.ub /\ ~other.ub

\* the elements in logical order, as slots
CBContents(B) ==
    [i \in 1..cb_size(B) |-> B.m_buffer[((B.m_head + i - 1) % capacity(B)) + 1]]

\* the buffer holds exactly the values of s, in the order of s
CBHolds(B, s) ==
    /\ cb_size(B) = Len(s)
    /\ \A i \in 1..Len(s) : CBContents(B)[i] = Slot(TRUE, s[i])

\* the record of the call: kind is the call, n the number of values
\* pushed so far, base the value of n when the buffer was last empty,
\* pops the number of elements popped since, full whether the call found
\* the buffer full, was the size() it found, arg and policy the
\* arguments of a resize, done the number of pop_front calls of the run of
\* push_back and pop_front calls that this call ended by emptying the
\* buffer (0 if it ended none), and phase what has been called since the
\* buffer was last empty: only push_back ("pushing"),
\* push_back and then no more pop_front than that ("popping"), or
\* anything else ("mixed")
CBCalledWith(kind, arg, policy) ==
    LET n == IF kind \in {"push_back", "push_front"} THEN cbcall.n + 1 ELSE cbcall.n
        full == capacity(cb) > 0 /\ cb_size(cb) = capacity(cb)
        inOrder == /\ kind = "pop_front" /\ cbcall.phase \in {"pushing", "popping"}
                   /\ cbcall.pops < cbcall.n - cbcall.base /\ CBOk(cb')
        given == [kind |-> kind, n |-> n, full |-> full, arg |-> arg, policy |-> policy,
                  was |-> cb_size(cb), base |-> 0, pops |-> 0, phase |-> "mixed",
                  done |-> 0]
    IN  cbcall' =
          IF cb_size(cb') = 0 /\ ~Ended(cb')
          THEN [given EXCEPT !.base = n, !.phase = "pushing",
                             !.done = IF inOrder THEN cbcall.pops + 1 ELSE 0]
          ELSE IF kind = "push_back" /\ cbcall.phase = "pushing" /\ CBOk(cb')
          THEN [given EXCEPT !.base = cbcall.base, !.phase = "pushing"]
          ELSE IF inOrder
          THEN [given EXCEPT !.base = cbcall.base, !.pops = cbcall.pops + 1,
                             !.phase = "popping"]
          ELSE given

CBCalled(kind) == CBCalledWith(kind, 0, "none")

\* before CircularBuffer's constructor has run
CBInit ==
    /\ cb = CircularBuffer(0, "FixedCapacity", "ReplaceOnFull")
    /\ cbcall = [kind |-> "none", n |-> 0, base |-> 0, pops |-> 0, phase |-> "pushing",
                 full |-> FALSE, done |-> 0, arg |-> 0, policy |-> "none", was |-> 0]
    /\ other = movedFrom

\* CircularBuffer(capacity, policy)
CBConstruct(cap, m_capacity, m_store) ==
    /\ cbcall.kind = "none"
    /\ cb' = CircularBuffer(cap, m_capacity, m_store)
    /\ CBCalled("CircularBuffer")
    /\ other' = movedFrom
    /\ UNCHANGED notCB

CBPushBack(o) ==
    /\ CBRunning
    /\ cbcall.n < MaxPushes
    /\ cb' = cb_push_back(CBCur, cbcall.n + 1, o)
    /\ CBCalled("push_back")
    /\ other' = movedFrom
    /\ UNCHANGED notCB

CBPushFront(o) ==
    /\ CBRunning
    /\ cbcall.n < MaxPushes
    /\ cb' = cb_push_front(CBCur, cbcall.n + 1, o)
    /\ CBCalled("push_front")
    /\ other' = movedFrom
    /\ UNCHANGED notCB

CBPopFront(o) ==
    /\ CBRunning
    /\ cb' = cb_pop_front(CBCur, o)
    /\ CBCalled("pop_front")
    /\ other' = movedFrom
    /\ UNCHANGED notCB

CBPopBack(o) ==
    /\ CBRunning
    /\ cb' = cb_pop_back(CBCur, o)
    /\ CBCalled("pop_back")
    /\ other' = movedFrom
    /\ UNCHANGED notCB

CBResize(newCapacity, policy, o) ==
    /\ CBRunning
    /\ cb' = cb_resize(CBCur, newCapacity, policy, o)
    /\ CBCalledWith("resize", newCapacity, policy)
    /\ other' = movedFrom
    /\ UNCHANGED notCB

CBLinearize(o) ==
    /\ CBRunning
    /\ cb' = cb_linearize(CBCur, o)
    /\ CBCalled("linearize")
    /\ other' = movedFrom
    /\ UNCHANGED notCB

CBClear(o) ==
    /\ CBRunning
    /\ cb' = cb_clear(CBCur, o)
    /\ CBCalled("clear")
    /\ other' = movedFrom
    /\ UNCHANGED notCB

\* CircularBuffer other{ cb }
CBCopy(o) ==
    /\ CBRunning
    /\ cb' = CBCur
    /\ CBCalled("copy")
    /\ other' = cb_copy(CBCur, o)
    /\ UNCHANGED notCB

\* CircularBuffer other{ std::move(cb) }
CBMove ==
    /\ CBRunning
    /\ cb' = movedFrom
    /\ CBCalled("move")
    /\ other' = CBCur
    /\ UNCHANGED notCB

CBNext ==
    \/ \E cap \in 0..MaxCap, m_capacity \in {"FixedCapacity", "DynamicCapacity"},
          m_store \in {"ReplaceOnFull", "ThrowOnFull"} :
            CBConstruct(cap, m_capacity, m_store)
    \/ \E o \in Options : CBPushBack(o)
    \/ \E o \in Options : CBPushFront(o)
    \/ \E o \in Options : CBPopFront(o)
    \/ \E o \in Options : CBPopBack(o)

\* cb = std::move(other)
CBMoveAssign(o) ==
    /\ CBRunning
    /\ cb' = cb_moveAssign(CBCur, other, o)
    /\ CBCalled("operator=")
    /\ other' = movedFrom
    /\ UNCHANGED notCB

\* the buffer goes out of scope
CBDestroy(o) ==
    /\ CBRunning
    /\ cb' = cb_destroy(CBCur, o)
    /\ CBCalled("~CircularBuffer")
    /\ other' = movedFrom
    /\ UNCHANGED notCB

\* the pushes while fewer than MaxAllPushes values have been pushed
CBAllPushBack(o) == cbcall.n < MaxAllPushes /\ CBPushBack(o)

CBAllPushFront(o) == cbcall.n < MaxAllPushes /\ CBPushFront(o)

\* every call, with resize, linearize, clear and the constructors that
\* take another buffer
CBAllNext ==
    \/ \E cap \in 0..MaxCap, m_capacity \in {"FixedCapacity", "DynamicCapacity"},
          m_store \in {"ReplaceOnFull", "ThrowOnFull"} :
            CBConstruct(cap, m_capacity, m_store)
    \/ \E o \in Options : CBAllPushBack(o)
    \/ \E o \in Options : CBAllPushFront(o)
    \/ \E o \in Options : CBPopFront(o)
    \/ \E o \in Options : CBPopBack(o)
    \/ \E newCapacity \in 0..MaxResize, policy \in {"DiscardOld", "DiscardNew"},
          o \in Options : CBResize(newCapacity, policy, o)
    \/ \E o \in Options : CBLinearize(o)
    \/ \E o \in Options : CBClear(o)
    \/ \E o \in Options : CBCopy(o)
    \/ CBMove
    \/ \E o \in Options : CBMoveAssign(o)
    \/ \E o \in Options : CBDestroy(o)

\* ---------------------------------------------------------------------
\* DoublyLinkedList<T> (include/dsa/doubly_linked_list.hpp)
\*
\* m_head owns the first node and every node owns its successor, so the
\* nodes that exist are those of the m_next chain from m_head: nodes is
\* that chain in order, each node with its m_element and its m_prev.  A
\* pointer (m_prev, m_tail) is the place in the chain of the node it points
\* to, NULL, or DANGLING once that node has been freed.  ub says that the
\* call dereferenced a pointer that is null or dangling.
\* ---------------------------------------------------------------------
DLLOk(L) == L.err = "none" /\ ~L.ub

DLLFail(L, e) == [L EXCEPT !.err = e]

DLLUndefined(L) == [L EXCEPT !.ub = TRUE]

\* whether the pointer points to a node that exists
dllValid(L, p) == p \in 1..Len(L.nodes)

\* m_head.get()
dllHead(L) == IF L.nodes = <<>> THEN NULL ELSE 1

\* p->m_next.get()
dllNext(L, p) == IF p < Len(L.nodes) THEN p + 1 ELSE NULL

\* where a pointer points once a node has been put at place k
ptrAfterInsert(p, k) == IF p >= k THEN p + 1 ELSE p

\* where a pointer points once the nodes at places lo..hi have been freed
ptrAfterErase(p, lo, hi) ==
    IF p < lo THEN p
    ELSE IF p <= hi THEN DANGLING
    ELSE p - (hi + 1 - lo)

\* the list with a new node of element v and m_prev q owned by the node at
\* place k - 1 (by m_head when k = 1), owning the node that was at place k
inserted(L, k, v, q) ==
    LET moved(n) == [n EXCEPT !.m_prev = ptrAfterInsert(@, k)]
        old == [i \in 1..Len(L.nodes) |-> moved(L.nodes[i])]
    IN  [L EXCEPT !.nodes = SubSeq(old, 1, k - 1)
                              \o <<[m_element |-> v, m_prev |-> q]>>
                              \o SubSeq(old, k, Len(old)),
                  !.m_tail = ptrAfterInsert(@, k)]

\* the list with the nodes at places lo..hi freed
erased(L, lo, hi) ==
    LET moved(n) == [n EXCEPT !.m_prev = ptrAfterErase(@, lo, hi)]
        old == [i \in 1..Len(L.nodes) |-> moved(L.nodes[i])]
    IN  [L EXCEPT !.nodes = SubSeq(old, 1, lo - 1) \o SubSeq(old, hi + 1, Len(old)),
                  !.m_tail = ptrAfterErase(@, lo, hi)]

\* current = current->m_next.get(), k times; a pointer that cannot be
\* dereferenced is left as it is
RECURSIVE walkNext(_, _, _)
walkNext(L, current, k) ==
    IF k = 0 \/ ~dllValid(L, current) THEN current
    ELSE walkNext(L, dllNext(L, current), k - 1)

\* current = current->m_prev, k times
RECURSIVE walkPrev(_, _, _)
walkPrev(L, current, k) ==
    IF k = 0 \/ ~dllValid(L, current) THEN current
    ELSE walkPrev(L, L.nodes[current].m_prev, k - 1)

\* node(pos): the exception thrown, if any, and the node referred to
dll_node(L, pos) ==
    IF pos >= L.m_size THEN [err |-> "out_of_range", p |-> NULL]
    ELSE IF pos <= L.m_size \div 2
    THEN [err |-> "none", p |-> walkNext(L, dllHead(L), pos)]
    ELSE [err |-> "none", p |-> walkPrev(L, L.m_tail, L.m_size - 1 - pos)]

dll_at(L, pos) ==
    LET n == dll_node(L, pos)
    IN  IF n.err # "none" THEN DLLFail(L, n.err)
        ELSE IF ~dllValid(L, n.p) THEN DLLUndefined(L)
        ELSE [L EXCEPT !.ret = L.nodes[n.p].m_element]

dll_push_front(L, element) ==
    IF L.nodes = <<>>
    THEN [L EXCEPT !.nodes = <<[m_element |-> element, m_prev |-> NULL]>>,
                   !.m_tail = 1, !.m_size = @ + 1, !.ret = element]
    ELSE [inserted(L, 1, element, NULL) EXCEPT !.m_size = @ + 1, !.ret = element]

\* m_tail->m_next = std::move(node) frees what the node at m_tail owned
dll_push_back(L, element) ==
    IF L.nodes = <<>>
    THEN [L EXCEPT !.nodes = <<[m_element |-> element, m_prev |-> NULL]>>,
                   !.m_tail = 1, !.m_size = @ + 1, !.ret = element]
    ELSE IF ~dllValid(L, L.m_tail) THEN DLLUndefined(L)
    ELSE LET t == L.m_tail
             cut == erased(L, t + 1, Len(L.nodes))
         IN  [inserted(cut, t + 1, element, t) EXCEPT
                  !.m_tail = t + 1, !.m_size = @ + 1, !.ret = element]

dll_pop_front(L) ==
    IF L.nodes = <<>> THEN DLLFail(L, "out_of_range")
    ELSE [erased(L, 1, 1) EXCEPT !.m_size = @ - 1, !.ret = L.nodes[1].m_element]

\* the node after prev is moved from, so what it owned is freed with the
\* temporary and the node itself by prev->m_next = nullptr
dll_pop_back(L) ==
    IF L.nodes = <<>> THEN DLLFail(L, "out_of_range")
    ELSE IF L.m_size = 1 THEN dll_pop_front(L)
    ELSE IF ~dllValid(L, L.m_tail) THEN DLLUndefined(L)
    ELSE LET prev == L.nodes[L.m_tail].m_prev
         IN  IF ~dllValid(L, prev) \/ ~dllValid(L, dllNext(L, prev))
             THEN DLLUndefined(L)
             ELSE [erased(L, prev + 1, Len(L.nodes)) EXCEPT
                      !.m_tail = prev, !.m_size = @ - 1,
                      !.ret = L.nodes[prev + 1].m_element]

dll_insert(L, pos, element) ==
    IF pos > L.m_size THEN DLLFail(L, "out_of_range")
    ELSE IF pos = 0 THEN dll_push_front(L, element)
    ELSE IF pos = L.m_size THEN dll_push_back(L, element)
    ELSE LET prev == dll_node(L, pos - 1).p
         IN  IF ~dllValid(L, prev) THEN DLLUndefined(L)
             ELSE [inserted(L, prev + 1, element, prev) EXCEPT
                      !.m_size = @ + 1, !.ret = element]

dll_remove(L, pos) ==
    IF pos >= L.m_size THEN DLLFail(L, "out_of_range")
    ELSE IF pos = 0 THEN dll_pop_front(L)
    ELSE IF pos = L.m_size - 1 THEN dll_pop_back(L)
    ELSE LET prev == dll_node(L, pos - 1).p
         IN  IF \/ ~dllValid(L, prev)
                \/ ~dllValid(L, dllNext(L, prev))
                \/ ~dllValid(L, dllNext(L, dllNext(L, prev)))
             THEN DLLUndefined(L)
             ELSE [erased([L EXCEPT !.nodes[prev + 2].m_prev = prev],
                          prev + 1, prev + 1) EXCEPT
                      !.m_size = @ - 1, !.ret = L.nodes[prev + 1].m_element]

\* ---------------------------------------------------------------------
\* the calls made on the DoublyLinkedList
\* ---------------------------------------------------------------------
DLLInit ==
    /\ dll = [nodes |-> <<>>, m_tail |-> NULL, m_size |-> 0,
              err |-> "none", ub |-> FALSE, ret |-> 0]
    /\ dllcall = [kind |-> "none", pos |-> 0]

\* the list as a call finds it; no call is made once one was undefined
DLLCur == [dll EXCEPT !.err = "none", !.ret = 0]

DLLCalled(kind, pos) ==
    /\ dllcall' = [kind |-> kind, pos |-> pos]
    /\ UNCHANGED notDLL

DLLPushFront(element) ==
    /\ ~dll.ub
    /\ dll.m_size < MaxNodes
    /\ dll' = dll_push_front(DLLCur, element)
    /\ DLLCalled("push_front", 0)

DLLPushBack(element) ==
    /\ ~dll.ub
    /\ dll.m_size < MaxNodes
    /\ dll' = dll_push_back(DLLCur, element)
    /\ DLLCalled("push_back", 0)

DLLInsert(pos, element) ==
    /\ ~dll.ub
    /\ dll.m_size < MaxNodes
    /\ dll' = dll_insert(DLLCur, pos, element)
    /\ DLLCalled("insert", pos)

DLLPopFront ==
    /\ ~dll.ub
    /\ dll' = dll_pop_front(DLLCur)
    /\ DLLCalled("pop_front", 0)

DLLPopBack ==
    /\ ~dll.ub
    /\ dll' = dll_pop_back(DLLCur)
    /\ DLLCalled("pop_back", 0)

DLLRemove(pos) ==
    /\ ~dll.ub
    /\ dll' = dll_remove(DLLCur, pos)
    /\ DLLCalled("remove", pos)

DLLAt(pos) ==
    /\ ~dll.ub
    /\ dll' = dll_at(DLLCur, pos)
    /\ DLLCalled("at", pos)

DLLNext ==
    \/ \E element \in Values : DLLPushFront(element)
    \/ \E element \in Values : DLLPushBack(element)
    \/ \E pos \in 0..(MaxNodes + 1), element \in Values : DLLInsert(pos, element)
    \/ DLLPopFront
    \/ DLLPopBack
    \/ \E pos \in 0..MaxNodes : DLLRemove(pos)
    \/ \E pos \in 0..MaxNodes : DLLAt(pos)

\* ---------------------------------------------------------------------
\* the specifications: the calls made on one of the objects
\* ---------------------------------------------------------------------
Init == BLLInit /\ RAInit /\ EIInit /\ CBInit /\ DLLInit

SpecBLL == Init /\ [][BLLNext]_vars

SpecRA == Init /\ [][RANext]_vars

SpecRAValid == Init /\ [][RAValidNext]_vars

SpecRAPush == Init /\ [][RAPushNext]_vars

SpecRAKept == Init /\ [][RAKeptNext]_vars

SpecEI == Init /\ [][EINext]_vars

SpecCB == Init /\ [][CBNext]_vars

SpecCBAll == Init /\ [][CBAllNext]_vars

SpecDLL == Init /\ [][DLLNext]_vars

\* ---------------------------------------------------------------------
\* what is observed of the array
\* ---------------------------------------------------------------------
\* the sizes and the capacities of the blocks
RABlockSizes == [i \in 1..Len(ra.m_blocks) |-> Len(ra.m_blocks[i].elems)]

RABlockCaps == [i \in 1..Len(ra.m_blocks) |-> ra.m_blocks[i].cap]

\* ---------------------------------------------------------------------
\* RootishArray: the claims
\* ---------------------------------------------------------------------

\* C8 (as claimed): after any sequence of insert, remove, push_back and
\* pop_back at most the last block has size < capacity: every block other
\* than the last is completely full.
C8_OnlyLastBlockPartial ==
    \A i \in 1..(Len(ra.m_blocks) - 1) : RABlockSizes[i] = RABlockCaps[i]

\* C9 (as claimed): the block list is empty exactly when the container
\* holds no elements.
C9_NoBlocksIffEmpty ==
    Len(ra.m_blocks) = 0 <=> SumSeq(RABlockSizes) = 0

\* C10 (as claimed): size() is the number of elements stored: the calls of
\* insert that returned minus the calls of remove that returned.
C10_SizeIsStoredCount ==
    /\ ra_size(ra) = rastored
    /\ ra_size(ra) = SumSeq(RABlockSizes)

\* C11: elementIndex(pos) returns (block, local) with
\* block * (block + 1) / 2 + local = pos and 0 <= local <= block: block is
\* the least index whose cumulative capacity over blocks 0..block exceeds pos.
C11_IndexLaw ==
    ei.called =>
        LET b == ei.ret.block
            l == ei.ret.index
        IN  /\ (b * (b + 1)) \div 2 + l = ei.pos
            /\ 0 <= l /\ l <= b
            /\ ((b + 1) * (b + 2)) \div 2 > ei.pos
            /\ \A k \in 0..(b - 1) : ((k + 1) * (k + 2)) \div 2 <= ei.pos

\* the position is the last of a block of several elements: 9 + 8 pos is
\* not a square, and the next position opens a block
C11_Witness ==
    /\ ei.called /\ ei.ret.block >= 3 /\ ei.ret.index = ei.ret.block

\* the elements read by at(0), ..., at(size() - 1)
RAContentsOf(A) == [i \in 1..ra_size(A) |-> ra_at(A, i - 1)]

\* C12 (as claimed): when every call is given a position in range, every
\* call succeeds, at(0..size-1) reads the elements of a plain list given the
\* same calls, and every pop/remove returns what the plain list returns.
C12_SequenceRefinement ==
    /\ ra.err = "none"
    /\ ra_size(ra) = Len(raref)
    /\ RAContentsOf(ra) = Boxed(raref)
    /\ racall.kind = "remove" => ra.ret = racall.refret

\* C13 (as claimed): from any reachable state, also one reached by removing
\* every element, insert(pos, v) immediately followed by remove(pos), for
\* pos in [0, size], returns v and restores the prior size and element order.
C13_RoundTripRestores ==
    [][racall'.kind = "roundtrip" =>
          /\ ra'.err = "none"
          /\ ra'.ret = racall'.refret
          /\ ra_size(ra') = ra_size(ra)
          /\ RAContentsOf(ra') = RAContentsOf(ra)]_vars

\* C14: insert(pos, v) with pos > size(), remove(pos) with pos >= size() and
\* pop_back/remove on an array that holds no element fail with an
\* out-of-range error and leave every block unchanged.
C14_ErrorsLeaveBlocksUnchanged ==
    [][(\/ ~racall'.valid
        \/ racall'.kind = "remove" /\ SumSeq(RABlockSizes) = 0) =>
          /\ ra'.err = "out_of_range"
          /\ ra'.m_blocks = ra.m_blocks]_vars

\* an insert beyond size() has been rejected by an array of three blocks
\* whose nearEmpty block is full
C14_Witness ==
    /\ racall.kind = "insert" /\ ~racall.valid /\ ra.err = "out_of_range"
    /\ Len(ra.m_blocks) = 3
    /\ Len(nearEmpty(ra).elems) = nearEmpty(ra).cap

\* C15 (as claimed): after any sequence of push_back, insert and pop_back
\* the block at index i has capacity i + 1 and every block with index below
\* blockCount - 2 is completely full.
C15_CapacitiesAndFullBlocks ==
    /\ \A i \in 1..Len(ra.m_blocks) : RABlockCaps[i] = i
    /\ \A i \in 1..(Len(ra.m_blocks) - 2) : RABlockSizes[i] = RABlockCaps[i]

\* the layout of the blocks of A: at least two blocks, all but the last
\* two full, the last but one not empty, the last one empty
RALayout(A) ==
    /\ Len(A.m_blocks) >= 2
    /\ \A i \in 1..(Len(A.m_blocks) - 2) :
         Len(A.m_blocks[i].elems) = A.m_blocks[i].cap
    /\ Len(nearEmpty(A).elems) >= 1
    /\ Len(A.m_blocks[Len(A.m_blocks)].elems) = 0

\* C36: from a fresh array, and as long as no removal has emptied it,
\* every insert and remove in range leaves m >= 2 blocks of which blocks 0..m-3
\* are full, block m-2 holds at least one element and block m-1 is empty;
\* an insert appends a block exactly when block m-2 was full before it,
\* and a remove drops the last block exactly when it leaves block m-2
\* empty with m > 2.
C36_LayoutKept ==
    [][/\ (racall'.kind \in {"insert", "remove"} /\ racall'.valid) =>
            ra'.err = "none" /\ RALayout(ra')
       /\ (racall'.kind = "insert" /\ racall'.valid /\ Len(ra.m_blocks) >= 2) =>
            Len(ra'.m_blocks) =
              IF Len(nearEmpty(ra).elems) = nearEmpty(ra).cap
              THEN Len(ra.m_blocks) + 1 ELSE Len(ra.m_blocks)
       /\ (racall'.kind = "remove" /\ racall'.valid) =>
            Len(ra'.m_blocks) =
              IF Len(nearEmpty(ra).elems) = 1 /\ Len(ra.m_blocks) > 2
              THEN Len(ra.m_blocks) - 1 ELSE Len(ra.m_blocks)]_vars

\* a remove has dropped the fourth block: the second block is full again
\* and the third is empty
C36_Witness ==
    /\ racall.kind = "remove"
    /\ ra.err = "none"
    /\ RABlockSizes = <<1, 2, 0>>

TypeRA ==
    /\ Len(ra.m_blocks) # 1
    /\ Len(ra.m_blocks) <= RAMaxSize


\* ---------------------------------------------------------------------
\* CircularBuffer: the claims
\* ---------------------------------------------------------------------

\* the values of the elements in logical order
CBValues(B) == [i \in 1..cb_size(B) |-> CBContents(B)[i].v]

\* every element in logical order is alive
CBAlive(B) == \A i \in 1..cb_size(B) : CBContents(B)[i].c

\* the buffer is full
CBFull(B) == capacity(B) > 0 /\ cb_size(B) = capacity(B)

\* C16: on a FixedCapacity buffer that was empty, after n push_back calls
\* (n at most the capacity) the pop_front calls return the pushed values
\* in the order they were pushed, and the n-th pop_front leaves the
\* buffer empty.
C16_FirstInFirstOut ==
    [][(/\ cbcall'.kind = "pop_front"
        /\ cbcall.phase \in {"pushing", "popping"}
        /\ cb.m_capacity = "FixedCapacity"
        /\ cbcall.n - cbcall.base <= capacity(cb)
        /\ cbcall.pops < cbcall.n - cbcall.base) =>
          /\ cb'.err = "none"
          /\ ~cb'.ub
          /\ cb'.ret = cbcall.base + cbcall.pops + 1
          /\ (cbcall.pops + 1 = cbcall.n - cbcall.base => cb_size(cb') = 0)]_vars

\* three values pushed into a buffer that had been used and emptied
\* before, and popped again
C16_Witness ==
    /\ cbcall.kind = "pop_front"
    /\ cb.m_capacity = "FixedCapacity"
    /\ cbcall.done = 3
    /\ cbcall.n = 5
    /\ cb.ret = 5
    /\ cb_size(cb) = 0
    /\ cb.err = "none"


\* the values pushed from the (a + 1)-th to the b-th, in push order
Pushed(a, b) == [i \in 1..(b - a) |-> a + i]

\* C17: when more values than the capacity have been pushed with
\* push_back into a FixedCapacity, ReplaceOnFull buffer that was empty,
\* size() is the capacity and the buffer holds the last capacity values
\* pushed, in push order.
C17_Wraparound ==
    (/\ cbcall.phase = "pushing"
     /\ cb.m_capacity = "FixedCapacity"
     /\ cb.m_store = "ReplaceOnFull"
     /\ cbcall.n - cbcall.base > capacity(cb)) =>
       /\ cb.err = "none"
       /\ cb_size(cb) = capacity(cb)
       /\ CBHolds(cb, Pushed(cbcall.n - capacity(cb), cbcall.n))

\* capacity + 2 values pushed into a buffer of capacity 2 that had been
\* used and emptied before
C17_Witness ==
    /\ cbcall.kind = "push_back"
    /\ cbcall.phase = "pushing"
    /\ cb.m_capacity = "FixedCapacity"
    /\ cb.m_store = "ReplaceOnFull"
    /\ capacity(cb) = 2
    /\ cbcall.base = 1
    /\ cbcall.n = 5
    /\ CBValues(cb) = <<4, 5>>

\* C18: push_front(v) on a full FixedCapacity, ReplaceOnFull buffer,
\* wherever its head is, keeps size() at the capacity, makes v the front
\* element, drops the former back element and keeps the others in order.
C18_PushFrontReplacesBack ==
    [][(/\ cbcall'.kind = "push_front"
        /\ cb.m_capacity = "FixedCapacity"
        /\ cb.m_store = "ReplaceOnFull"
        /\ CBFull(cb)) =>
          /\ cb'.err = "none"
          /\ capacity(cb') = capacity(cb)
          /\ cb_size(cb') = capacity(cb)
          /\ CBAlive(cb')
          /\ CBValues(cb') =
               <<cbcall'.n>> \o SubSeq(CBValues(cb), 1, capacity(cb) - 1)]_vars

\* a push_front on a full buffer of capacity 3 whose head was at slot 2
C18_Witness ==
    /\ cbcall.kind = "push_front"
    /\ cbcall.full
    /\ cb.m_capacity = "FixedCapacity"
    /\ cb.m_store = "ReplaceOnFull"
    /\ capacity(cb) = 3
    /\ cb.m_head = 1
    /\ cb.m_tail = npos
    /\ CBValues(cb)[1] = cbcall.n

\* C19: push_back or push_front on a full FixedCapacity, ThrowOnFull
\* buffer fails (with out_of_range, or with logic_error if the capacity
\* is 0) and leaves head, tail, capacity and every slot unchanged.
C19_ThrowOnFullChangesNothing ==
    [][(/\ cbcall'.kind \in {"push_back", "push_front"}
        /\ cb.m_capacity = "FixedCapacity"
        /\ cb.m_store = "ThrowOnFull"
        /\ cb_size(cb) = capacity(cb)) =>
          /\ cb'.err = IF capacity(cb) = 0 THEN "logic_error" ELSE "out_of_range"
          /\ cb'.m_head = cb.m_head
          /\ cb'.m_tail = cb.m_tail
          /\ cb'.m_buffer = cb.m_buffer]_vars

\* a push refused on a full buffer of two elements whose head is at
\* slot 1
C19_Witness ==
    /\ cbcall.kind \in {"push_back", "push_front"}
    /\ cbcall.full
    /\ cb.m_capacity = "FixedCapacity"
    /\ cb.m_store = "ThrowOnFull"
    /\ cb.err = "out_of_range"
    /\ capacity(cb) = 2
    /\ cb.m_head = 1
    /\ CBAlive(cb)

\* C20: push_back or push_front on a full DynamicCapacity buffer,
\* wherever its head is and whatever its store policy, does not fail and
\* evicts nothing: the capacity doubles, the size grows by one, the new
\* value is at the pushed end and the elements that were there keep
\* their order.
C20_DynamicGrowKeepsElements ==
    [][(/\ cbcall'.kind \in {"push_back", "push_front"}
        /\ cb.m_capacity = "DynamicCapacity"
        /\ CBFull(cb)
        /\ CBAlive(cb)) =>
          /\ cb'.err = "none"
          /\ capacity(cb') = 2 * capacity(cb)
          /\ cb_size(cb') = cb_size(cb) + 1
          /\ CBAlive(cb')
          /\ CBValues(cb') = IF cbcall'.kind = "push_back"
                             THEN Append(CBValues(cb), cbcall'.n)
                             ELSE <<cbcall'.n>> \o CBValues(cb)]_vars

\* the slots that hold the elements of B
CBLogical(B) == {((B.m_head + i) % capacity(B)) + 1 : i \in 0..(cb_size(B) - 1)}

\* B is as the class means it to be: the cursors are within the arena,
\* m_tail is npos exactly when the buffer is full, and the live elements
\* are those between the cursors
CBWell(B) ==
    /\ B.err = "none" /\ ~B.ub
    /\ IF capacity(B) = 0 THEN B.m_head = 0 /\ B.m_tail = npos
       ELSE /\ B.m_head \in 0..(capacity(B) - 1)
            /\ B.m_tail \in {npos} \cup 0..(capacity(B) - 1)
            /\ \A j \in 1..capacity(B) : B.m_buffer[j].c <=> j \in CBLogical(B)

\* s without its first element, and s without its last
Rest(s) == SubSeq(s, 2, Len(s))

Front(s) == SubSeq(s, 1, Len(s) - 1)

\* C21: a pop_front or pop_back that succeeds on a buffer of capacity at
\* least 1, whatever its policies, returns the front or back element,
\* makes size() one less and leaves the other elements in their order,
\* also when a DynamicCapacity buffer shrinks.
C21_PopTakesOneEnd ==
    [][(/\ cbcall'.kind \in {"pop_front", "pop_back"}
        /\ CBWell(cb)
        /\ capacity(cb) >= 1
        /\ cb'.err = "none") =>
          /\ cb_size(cb') = cb_size(cb) - 1
          /\ CBAlive(cb')
          /\ IF cbcall'.kind = "pop_front"
             THEN cb'.ret = CBValues(cb)[1] /\ CBValues(cb') = Rest(CBValues(cb))
             ELSE /\ cb'.ret = CBValues(cb)[cb_size(cb)]
                  /\ CBValues(cb') = Front(CBValues(cb))]_vars

\* C22: on a DynamicCapacity buffer a pop that leaves a quarter of the
\* capacity (capacity() / 4, rounded down) halves the capacity
\* (capacity() / 2, rounded down) and packs the elements in order from
\* head 0; any other pop leaves the capacity as it is.
C22_ShrinkAtAQuarter ==
    [][(/\ cbcall'.kind \in {"pop_front", "pop_back"}
        /\ CBWell(cb)
        /\ cb.m_capacity = "DynamicCapacity"
        /\ capacity(cb) >= 1
        /\ cb'.err = "none") =>
          IF cb_size(cb) - 1 = capacity(cb) \div 4
          THEN /\ capacity(cb') = capacity(cb) \div 2
               /\ cb'.m_head = 0
               /\ CBAlive(cb')
               /\ CBValues(cb') = IF cbcall'.kind = "pop_front"
                                  THEN Rest(CBValues(cb)) ELSE Front(CBValues(cb))
          ELSE capacity(cb') = capacity(cb)]_vars

\* C23: pop_front and pop_back on a buffer whose size() is 0, a buffer
\* of capacity 0 included, fail with out_of_range and leave head, tail
\* and capacity unchanged.
C23_PopOnEmptyFails ==
    [][(/\ cbcall'.kind \in {"pop_front", "pop_back"}
        /\ cb_size(cb) = 0) =>
          /\ cb'.err = "out_of_range"
          /\ cb'.m_head = cb.m_head
          /\ cb'.m_tail = cb.m_tail
          /\ capacity(cb') = capacity(cb)]_vars

\* the number of live elements in the arena of B
CBLive(B) == Cardinality({j \in 1..capacity(B) : B.m_buffer[j].c})

\* C24: in every state reached through push, pop, resize, linearize and
\* clear with capacity > 0, head is in [0, capacity), tail is npos or in
\* [0, capacity), and tail is npos exactly when the buffer holds
\* capacity live elements.
C24_CursorInvariant ==
    (/\ cbcall.kind \in {"CircularBuffer", "push_back", "push_front", "pop_front",
                         "pop_back", "resize", "linearize", "clear"}
     /\ cb.err \in {"none", "logic_error", "out_of_range"}
     /\ ~cb.ub
     /\ capacity(cb) > 0) =>
       /\ cb.m_head \in 0..(capacity(cb) - 1)
       /\ cb.m_tail \in {npos} \cup 0..(capacity(cb) - 1)
       /\ cb.m_tail = npos <=> CBLive(cb) = capacity(cb)

\* C25: resize(n, policy) with n > capacity(), from any state, leaves
\* the contents and size() as they were, makes capacity() n, head 0 and
\* tail the old size.
C25_GrowKeepsContents ==
    [][(/\ cbcall'.kind = "resize"
        /\ CBWell(cb)
        /\ cbcall'.arg > capacity(cb)) =>
          /\ cb'.err = "none"
          /\ capacity(cb') = cbcall'.arg
          /\ cb_size(cb') = cb_size(cb)
          /\ CBAlive(cb')
          /\ CBValues(cb') = CBValues(cb)
          /\ cb'.m_head = 0
          /\ cb'.m_tail = cb_size(cb)]_vars

\* C26: resize(n, policy) with 0 < n < size() leaves size() and
\* capacity() at n and keeps the last n elements in order under
\* DiscardOld, the first n elements in order under DiscardNew.
C26_ShrinkKeepsOneEnd ==
    [][(/\ cbcall'.kind = "resize"
        /\ CBWell(cb)
        /\ cbcall'.arg > 0
        /\ cbcall'.arg < cb_size(cb)) =>
          /\ cb'.err = "none"
          /\ capacity(cb') = cbcall'.arg
          /\ cb_size(cb') = cbcall'.arg
          /\ CBAlive(cb')
          /\ CBValues(cb') =
               IF cbcall'.policy = "DiscardOld"
               THEN SubSeq(CBValues(cb), cb_size(cb) - cbcall'.arg + 1, cb_size(cb))
               ELSE SubSeq(CBValues(cb), 1, cbcall'.arg)]_vars

\* three elements, pushed at the front, shrunk to the first two
C26_Witness ==
    /\ cbcall.kind = "resize"
    /\ cbcall.arg = 2
    /\ cbcall.policy = "DiscardNew"
    /\ cbcall.was = 3
    /\ cbcall.n = 3
    /\ CBValues(cb) = <<3, 2>>
    /\ capacity(cb) = 2
    /\ cb.err = "none"

\* C27: resize(0, policy) clears the buffer: afterwards size() is 0 and
\* at() finds no element.
C27_ResizeToZeroClears ==
    [][(/\ cbcall'.kind = "resize"
        /\ CBWell(cb)
        /\ cbcall'.arg = 0) =>
          /\ cb'.err = "none"
          /\ cb_size(cb') = 0
          /\ \A pos \in 0..MaxResize, o \in Options :
               cb_at(cb', pos, o).err = "out_of_range"]_vars

\* C28: linearize() leaves size(), capacity() and the contents as they
\* were and makes head 0, so that the element at index i is in slot i.
C28_LinearizeKeepsContents ==
    [][(/\ cbcall'.kind = "linearize"
        /\ CBWell(cb)) =>
          /\ cb'.err = "none"
          /\ cb_size(cb') = cb_size(cb)
          /\ capacity(cb') = capacity(cb)
          /\ CBValues(cb') = CBValues(cb)
          /\ cb'.m_head = 0
          /\ \A i \in 1..cb_size(cb) : cb'.m_buffer[i].v = CBValues(cb)[i]]_vars

\* C29: the copy of a buffer in any state has its size, capacity and
\* contents, and the buffer copied is unchanged.
C29_CopyIsEqual ==
    [][(/\ cbcall'.kind = "copy"
        /\ CBWell(cb)) =>
          /\ other'.err = "none"
          /\ cb_size(other') = cb_size(cb)
          /\ capacity(other') = capacity(cb)
          /\ CBAlive(other')
          /\ CBValues(other') = CBValues(cb)
          /\ cb'.m_buffer = cb.m_buffer
          /\ cb'.m_head = cb.m_head
          /\ cb'.m_tail = cb.m_tail]_vars

\* C30: after a move construction the new buffer holds what the old one
\* held, and the old one has size() 0 and capacity() 0 and refuses
\* push_back (logic_error) and pop_front (out_of_range).
C30_MoveEmptiesTheSource ==
    [][/\ (cbcall'.kind = "move" /\ CBWell(cb)) =>
             /\ capacity(other') = capacity(cb)
             /\ cb_size(other') = cb_size(cb)
             /\ CBContents(other') = CBContents(cb)
             /\ cb_size(cb') = 0
             /\ capacity(cb') = 0
       /\ (cbcall.kind = "move" /\ cbcall'.kind = "push_back") =>
             cb'.err = "logic_error" /\ cb_size(cb') = 0
       /\ (cbcall.kind = "move" /\ cbcall'.kind = "pop_front") =>
             cb'.err = "out_of_range" /\ cb_size(cb') = 0]_vars

\* a buffer of two elements whose head is not slot 0 has been moved
C30_Witness ==
    /\ cbcall.kind = "move"
    /\ cb_size(other) = 2
    /\ other.m_head # 0
    /\ CBAlive(other)
    /\ capacity(cb) = 0
    /\ cb.m_tail = npos

\* C31: across push, pop, resize, linearize and clear calls construct is
\* only called on a slot that holds nothing, destroy only on a slot that
\* holds an element, and no slot is read before construct or after
\* destroy: no assertion of RawBuffer fails and no call leaves defined
\* behaviour.
C31_SlotLifecycle ==
    cbcall.kind \in {"CircularBuffer", "push_back", "push_front", "pop_front",
                     "pop_back", "resize", "linearize", "clear"} =>
       /\ cb.err # "assert"
       /\ ~cb.ub

\* C32: whenever a CircularBuffer frees or replaces its arena (resize to
\* another capacity, move assignment, destruction), every element of
\* that arena has been destroyed before.
C32_ArenaReleasedEmpty == ~cb.leaked

\* C37: resize(n, policy) with 0 < n, size() <= n < capacity() discards
\* nothing: afterwards size() is as before, capacity() is n and the
\* contents are the same elements in the same order.
C37_ShrinkAboveSizeKeepsAll ==
    [][(/\ cbcall'.kind = "resize"
        /\ CBWell(cb)
        /\ cbcall'.arg > 0
        /\ cb_size(cb) <= cbcall'.arg
        /\ cbcall'.arg < capacity(cb)) =>
          /\ cb'.err = "none"
          /\ capacity(cb') = cbcall'.arg
          /\ cb_size(cb') = cb_size(cb)
          /\ CBAlive(cb')
          /\ CBValues(cb') = CBValues(cb)]_vars

\* a deque d bounded by C after a call: a push on a full deque drops the
\* element at the other end under ReplaceOnFull and is refused under
\* ThrowOnFull, a pop on an empty deque is refused
DequeAfter(d, C, store, kind, v) ==
    IF kind = "push_back"
    THEN IF Len(d) < C THEN Append(d, v)
         ELSE IF store = "ReplaceOnFull" THEN Append(Rest(d), v) ELSE d
    ELSE IF kind = "push_front"
    THEN IF Len(d) < C THEN <<v>> \o d
         ELSE IF store = "ReplaceOnFull" THEN <<v>> \o Front(d) ELSE d
    ELSE IF kind = "pop_front" THEN Rest(d)
    ELSE Front(d)

\* whether the deque refuses the call
DequeRefuses(d, C, store, kind) ==
    IF kind \in {"push_back", "push_front"}
    THEN Len(d) = C /\ store = "ThrowOnFull"
    ELSE d = <<>>

\* size() and at(0), ..., at(size() - 1), called once the call that left B
\* has returned or thrown, read the deque d
ReadsAs(B, d) ==
    /\ CBValues(B) = d
    /\ cb_size(B) = Len(d)
    /\ \A i \in 1..Len(d), o \in Options :
         LET read == cb_at([B EXCEPT !.err = "none"], i - 1, o)
         IN  read.err = "none" /\ ~read.ub /\ read.ret = d[i]

\* C38: a FixedCapacity buffer of capacity C >= 1 is a deque bounded by
\* C: it is empty when constructed, and every push_front, push_back,
\* pop_front and pop_back takes a buffer that reads as the deque d to one
\* that reads as d after the same call, refusing the call (out_of_range)
\* exactly when the deque does; so after any interleaving of the four
\* calls size() and at(i) match the deque.
C38_BoundedDeque ==
    [][/\ (cbcall'.kind = "CircularBuffer" /\ capacity(cb') >= 1) => ReadsAs(cb', <<>>)
       /\ (/\ cbcall'.kind \in {"push_back", "push_front", "pop_front", "pop_back"}
           /\ cb.m_capacity = "FixedCapacity"
           /\ capacity(cb) >= 1) =>
             /\ ~cb'.ub
             /\ capacity(cb') = capacity(cb)
             /\ cb'.err = IF DequeRefuses(CBValues(cb), capacity(cb), cb.m_store, cbcall'.kind)
                          THEN "out_of_range" ELSE "none"
             /\ ReadsAs(cb', DequeAfter(CBValues(cb), capacity(cb), cb.m_store,
                                        cbcall'.kind, cbcall'.n))]_vars

\* a pop_back has taken the element of the last slot from a buffer of
\* capacity 3 whose elements wrap around the end of the arena
C38_Witness ==
    /\ cbcall.kind = "pop_back"
    /\ cbcall.phase = "mixed"
    /\ cb.m_capacity = "FixedCapacity"
    /\ cb.err = "none"
    /\ capacity(cb) = 3
    /\ cb.m_head = 2
    /\ cb.m_tail = 0
    /\ cb.ret = cbcall.n

TypeCB ==
    /\ cb.m_head \in 0..(MaxCap + 2 * MaxPushes)
    /\ cb.m_tail \in {npos} \cup 0..(MaxCap + 2 * MaxPushes)
    /\ cb.m_capacity \in {"FixedCapacity", "DynamicCapacity"}
    /\ cb.m_store \in {"ReplaceOnFull", "ThrowOnFull"}
    /\ cb.err \in {"none", "logic_error", "out_of_range", "assert", "fpe"}
    /\ cb.ub \in BOOLEAN
    /\ cb.leaked \in BOOLEAN
    /\ cb.err # "assert" => cb.buffer = <<>>
    /\ \A i \in 1..capacity(cb) :
         cb.m_buffer[i].c \in BOOLEAN /\ cb.m_buffer[i].v \in {GARBAGE, MOVED} \cup 1..MaxPushes
    /\ cbcall.n \in 0..MaxPushes
    /\ cbcall.phase \in {"pushing", "popping", "mixed"}
    /\ cbcall.arg \in 0..MaxResize
    /\ cbcall.policy \in {"none", "DiscardOld", "DiscardNew"}

\* ---------------------------------------------------------------------
\* what is observed of the DoublyLinkedList
\* ---------------------------------------------------------------------
\* the elements met by a traversal from begin() through the m_next links
ForwardElements(L) == [i \in 1..Len(L.nodes) |-> L.nodes[i].m_element]

\* C39: after any sequence of push_front, push_back, insert, pop_front,
\* pop_back and remove none of which was undefined, at(pos) returns for
\* every pos < size() the element at place pos of the forward traversal,
\* through whichever end node(pos) walks from.
C39_AtReadsForwardPosition ==
    ~dll.ub =>
        \A pos \in 0..(dll.m_size - 1) :
            /\ pos < Len(dll.nodes)
            /\ dll_at(DLLCur, pos).err = "none"
            /\ ~dll_at(DLLCur, pos).ub
            /\ dll_at(DLLCur, pos).ret = ForwardElements(dll)[pos + 1]

TypeDLL ==
    /\ dll.m_size \in 0..MaxNodes
    /\ Len(dll.nodes) <= dll.m_size
    /\ dll.m_tail \in {NULL, DANGLING} \cup 1..Len(dll.nodes)
    /\ \A i \in 1..Len(dll.nodes) :
         /\ dll.nodes[i].m_element \in Values
         /\ dll.nodes[i].m_prev \in {NULL, DANGLING} \cup 1..Len(dll.nodes)
    /\ dll.err \in {"none", "out_of_range"}

====
